---- MODULE Spec2Model ----
(***************************************************************************)
(* Model of src/compiler/js-inlining-heuristic.cc (JSInliningHeuristic).   *)
(*                                                                         *)
(* Part 1 (specification Spec): the Candidate Collector (Reduce), the      *)
(* Priority Scheduler (Finalize, CandidateCompare) and the counter and     *)
(* inliner hand-over of InlineCandidate.  The external inliner             *)
(* (inliner_.ReduceJSCall) is an oracle that answers Changed or Unchanged. *)
(*                                                                         *)
(* Part 2 (specifications GSpec and DSpec): the graph.  GSpec runs the     *)
(* polymorphic path of InlineCandidate (CreateOrReuseDispatch, the joins)  *)
(* on call sites; DSpec applies DuplicateFrameStateAndRename and           *)
(* DuplicateStateValuesAndRename to snapshot trees.                        *)
(***************************************************************************)
EXTENDS Integers, Sequences, FiniteSets, TLC

\* ------------------------------------------------------------------ bounds
\* Number of call-shaped nodes the driver can feed to the heuristic.
NumNodes == 2

\* Largest number of inputs of a locals StateValues node.
MaxSlots == 2

\* ------------------------------------------------------- configuration
\* The thresholds are configuration: the code reads them as resolved
\* numbers.  The values below are one configuration in which every budget
\* decision of the code is taken both ways.
\* Maximum call-site polymorphism (capacity of Candidate::functions).
kMaxCallPolymorphism == 3
FLAG_max_inlined_bytecode_size == 1000
FLAG_max_inlined_bytecode_size_small == 5
FLAG_max_inlined_bytecode_size_absolute == 10
FLAG_max_inlined_bytecode_size_cumulative == 500
FLAG_min_inlining_frequency == 1
FLAG_max_inlining_levels == 1
\* FLAG_reserve_inline_budget_scale_factor = 1.2 = ScaleNum / ScaleDen
ScaleNum == 6
ScaleDen == 5

Nodes == 1..NumNodes

Modes == {"kRestrictedInlining", "kGeneralInlining", "kStressInlining"}

\* --------------------------------------------------- function descriptors
\* SharedFunctionInfo as seen by this file: force_inline(),
\* HasBuiltinFunctionId(), IsUserJavaScript(), HasBytecodeArray(),
\* bytecode_array()->length().
Fn(force, builtin, user, bytecode, length) ==
  [force_inline |-> force, builtin |-> builtin, user_js |-> user,
   has_bytecode |-> bytecode, length |-> length]

fSmall    == Fn(FALSE, FALSE, TRUE, TRUE, 3)
fTen      == Fn(FALSE, FALSE, TRUE, TRUE, 10)
fThousand == Fn(FALSE, FALSE, TRUE, TRUE, 1000)
fTooBig   == Fn(FALSE, FALSE, TRUE, TRUE, 1001)
fBuiltin  == Fn(FALSE, TRUE, TRUE, TRUE, 3)
fForce    == Fn(TRUE, FALSE, TRUE, TRUE, 10)
fForceBuiltin == Fn(TRUE, TRUE, FALSE, TRUE, 3)
\* A function whose size scaled by the reserve factor is not a whole
\* number: 417 * 1.2 = 500.4, just above the cumulative cap.
fReserve  == Fn(FALSE, FALSE, TRUE, TRUE, 417)

\* A heap constant that is not a JSFunction.
NotAFunction == Fn(FALSE, FALSE, FALSE, FALSE, 0 - 1)

\* Functions a constant or closure callee can denote.
Functions == {fSmall, fTen, fThousand, fTooBig, fBuiltin, fForce,
              fForceBuiltin, fReserve}

\* The value inputs of a callee phi: heap constants in every combination
\* of small, inlinable, not inlinable and force-inline the code tells apart,
\* one input
\* that is no JSFunction, and one phi wider than the cap.
PhiInputs ==
  { <<fTen, fTen>>, <<fTen, fForceBuiltin>>, <<fSmall, fSmall>>,
    <<fSmall, fForceBuiltin>>, <<fSmall, fSmall, fSmall>>,
    <<fForce, fForceBuiltin>>,
    <<fSmall, NotAFunction>>, <<fTen, fTen, fTen, fTen>> }

\* ------------------------------------------------------------ frequency
Unknown == [known |-> FALSE, value |-> 0]
Known(v) == [known |-> TRUE, value |-> v]
Frequencies == {Unknown, Known(0), Known(1), Known(9)}

\* --------------------------------------------------------- callee shapes
SeqsOfLen(S, n) == [1..n -> S]

Callees ==
  [kind : {"HeapConstant"}, inputs : SeqsOfLen(Functions \cup {NotAFunction}, 1)]
  \cup [kind : {"JSCreateClosure"}, inputs : SeqsOfLen(Functions, 1)]
  \cup [kind : {"Other"}, inputs : {<<>>}]
  \cup [kind : {"Phi"}, inputs : PhiInputs]

\* IrOpcode::IsInlineeOpcode holds of JSCall and JSConstruct; both carry a
\* frequency in their operator parameters.
Opcodes == {"Inlinee", "Other"}

\* Frame-state chains above a call, innermost first: TRUE marks a frame
\* whose type IsJSFunctionType.
FrameChains == {<<>>, <<FALSE, TRUE>>, <<TRUE, TRUE>>, <<TRUE, FALSE, TRUE>>}

VARIABLES
  mode,               \* mode_
  polymorphic,        \* FLAG_polymorphic_inlining
  seen,               \* seen_
  candidates,         \* candidates_ (std::set, kept in comparator order)
  cumulative_count,   \* cumulative_count_
  lastOp,             \* history: what the last operation did
  cmp,                \* comparator harness: inputs, results, a std::set
  g                   \* the graph and the call site or snapshot at hand

vars == <<mode, polymorphic, seen, candidates, cumulative_count, lastOp, cmp,
          g>>

\* The variables the collector and the scheduler leave alone.
others == <<cmp, g>>

\* ----------------------------------------------------------- pure helpers
RECURSIVE SumSeq(_)
SumSeq(s) == IF s = <<>> THEN 0 ELSE Head(s) + SumSeq(Tail(s))

\* Mutant of CollectFunctions: the arity check of the phi case is missing.
CollectFunctionsNoCap(callee, functions_size) ==
  IF callee.kind = "HeapConstant" /\ callee.inputs[1] # NotAFunction
    THEN <<callee.inputs[1]>>
  ELSE IF callee.kind = "Phi"
    THEN IF \E n \in 1..Len(callee.inputs) : callee.inputs[n] = NotAFunction
           THEN <<>>
         ELSE callee.inputs
  ELSE IF callee.kind = "JSCreateClosure"
    THEN <<callee.inputs[1]>>
  ELSE <<>>

\* CollectFunctions: the resolved targets (empty when resolution fails).
\* functions_size is the capacity of the functions array.
CollectFunctions(callee, functions_size) ==
  IF callee.kind = "HeapConstant" /\ callee.inputs[1] # NotAFunction
    THEN <<callee.inputs[1]>>
  ELSE IF callee.kind = "Phi"
    THEN IF Len(callee.inputs) > functions_size THEN <<>>
         ELSE IF \E n \in 1..Len(callee.inputs) : callee.inputs[n] = NotAFunction
           THEN <<>>
         ELSE callee.inputs
  ELSE IF callee.kind = "JSCreateClosure"
    THEN <<callee.inputs[1]>>
  ELSE <<>>

\* Mutant of CanInlineFunction: every function counts as inlinable.
CanInlineFunctionAlways(shared) == TRUE

CanInlineFunction(shared) ==
  IF shared.builtin THEN FALSE
  ELSE IF ~shared.user_js THEN FALSE
  ELSE IF ~shared.has_bytecode THEN FALSE
  ELSE IF shared.length > FLAG_max_inlined_bytecode_size THEN FALSE
  ELSE TRUE

\* Mutant of IsSmallInlineFunction: every function counts as small.
IsSmallInlineFunctionAlways(shared) == TRUE

IsSmallInlineFunction(shared) ==
  shared.has_bytecode /\ shared.length <= FLAG_max_inlined_bytecode_size_small

\* Mutant of CandidateCompare: the lower known frequency is ordered first.
CandidateCompareLowFirst(left, right) ==
  IF ~right.frequency.known
    THEN IF ~left.frequency.known THEN left.node > right.node ELSE TRUE
  ELSE IF ~left.frequency.known THEN FALSE
  ELSE IF left.frequency.value < right.frequency.value THEN TRUE
  ELSE IF left.frequency.value > right.frequency.value THEN FALSE
  ELSE left.node > right.node

\* Mutant of CandidateCompare: no tie-break between two unknown frequencies.
CandidateCompareNoTieBreak(left, right) ==
  IF ~right.frequency.known
    THEN IF ~left.frequency.known THEN FALSE ELSE TRUE
  ELSE IF ~left.frequency.known THEN FALSE
  ELSE IF left.frequency.value > right.frequency.value THEN TRUE
  ELSE IF left.frequency.value < right.frequency.value THEN FALSE
  ELSE left.node > right.node

\* CandidateCompare::operator(): TRUE when left is ordered before right.
CandidateCompare(left, right) ==
  IF ~right.frequency.known
    THEN IF ~left.frequency.known THEN left.node > right.node ELSE TRUE
  ELSE IF ~left.frequency.known THEN FALSE
  ELSE IF left.frequency.value > right.frequency.value THEN TRUE
  ELSE IF left.frequency.value < right.frequency.value THEN FALSE
  ELSE left.node > right.node

\* std::set<Candidate, CandidateCompare>::insert on the ordered contents:
\* the position is the first element not ordered before c; an element
\* equivalent to c (neither ordered before the other) blocks the insertion.
SetInsert(s, c) ==
  LET notBefore == { p \in 1..Len(s) : ~CandidateCompare(s[p], c) }
      pos == IF notBefore = {} THEN Len(s) + 1
             ELSE CHOOSE p \in notBefore : \A q \in notBefore : p <= q
  IN IF pos <= Len(s) /\ ~CandidateCompare(c, s[pos]) THEN s
     ELSE SubSeq(s, 1, pos - 1) \o <<c>> \o SubSeq(s, pos, Len(s))

\* Record of one inliner_.ReduceJSCall invocation.
InlCall(node, idx, size, changed) ==
  [node |-> node, idx |-> idx, size |-> size, changed |-> changed]

\* The per-branch loop of InlineCandidate (polymorphic path), from branch i.
\* ok is the set of branches for which the inliner answers Changed.
RECURSIVE InlineBranches(_, _, _, _, _, _)
\* Mutant of InlineBranches: can_inline_function is not consulted.
InlineBranchesAnyTarget(candidate, force_inline, ok, i, count, inl) ==
  IF i > candidate.num_functions THEN [count |-> count, inl |-> inl]
  ELSE IF force_inline \/ count < FLAG_max_inlined_bytecode_size_cumulative
    THEN LET size == candidate.functions[i].length
             changed == i \in ok
         IN InlineBranches(candidate, force_inline, ok, i + 1,
                           IF changed THEN count + size ELSE count,
                           Append(inl, InlCall(candidate.node, i, size, changed)))
  ELSE InlineBranches(candidate, force_inline, ok, i + 1, count, inl)

\* Mutant of InlineBranches: force_inline is not consulted.
InlineBranchesNoForce(candidate, force_inline, ok, i, count, inl) ==
  IF i > candidate.num_functions THEN [count |-> count, inl |-> inl]
  ELSE IF candidate.can_inline_function[i]
          /\ count < FLAG_max_inlined_bytecode_size_cumulative
    THEN LET size == candidate.functions[i].length
             changed == i \in ok
         IN InlineBranches(candidate, force_inline, ok, i + 1,
                           IF changed THEN count + size ELSE count,
                           Append(inl, InlCall(candidate.node, i, size, changed)))
  ELSE InlineBranches(candidate, force_inline, ok, i + 1, count, inl)

\* Mutant of InlineBranches: the budget is checked against the counter as
\* it was before the first branch.
InlineBranchesStaleCount(candidate, force_inline, ok, i, count, inl) ==
  IF i > candidate.num_functions THEN [count |-> count, inl |-> inl]
  ELSE IF force_inline
          \/ (candidate.can_inline_function[i]
              /\ count - SumSeq([k \in 1..Len(inl) |->
                                  IF inl[k].changed THEN inl[k].size ELSE 0])
                   < FLAG_max_inlined_bytecode_size_cumulative)
    THEN LET size == candidate.functions[i].length
             changed == i \in ok
         IN InlineBranches(candidate, force_inline, ok, i + 1,
                           IF changed THEN count + size ELSE count,
                           Append(inl, InlCall(candidate.node, i, size, changed)))
  ELSE InlineBranches(candidate, force_inline, ok, i + 1, count, inl)

InlineBranches(candidate, force_inline, ok, i, count, inl) ==
  IF i > candidate.num_functions THEN [count |-> count, inl |-> inl]
  ELSE IF force_inline
          \/ (candidate.can_inline_function[i]
              /\ count < FLAG_max_inlined_bytecode_size_cumulative)
    THEN LET size == candidate.functions[i].length
             changed == i \in ok
         IN InlineBranches(candidate, force_inline, ok, i + 1,
                           IF changed THEN count + size ELSE count,
                           Append(inl, InlCall(candidate.node, i, size, changed)))
  ELSE InlineBranches(candidate, force_inline, ok, i + 1, count, inl)

\* Mutant of InlineCandidate: the monomorphic path adds the size whatever
\* the inliner answers.
InlineCandidateAlwaysCounts(candidate, force_inline, ok, count) ==
  IF candidate.num_functions = 1
    THEN LET size == candidate.functions[1].length
             changed == 1 \in ok
         IN [count |-> count + size,
             inl |-> <<InlCall(candidate.node, 1, size, changed)>>,
             changed |-> changed]
  ELSE LET r == InlineBranches(candidate, force_inline, ok, 1, count, <<>>)
       IN [count |-> r.count, inl |-> r.inl, changed |-> TRUE]

\* Mutant of InlineCandidate: the polymorphic path answers Changed only if
\* a specialized call was inlined.
InlineCandidateChangedIfInlined(candidate, force_inline, ok, count) ==
  IF candidate.num_functions = 1
    THEN LET size == candidate.functions[1].length
             changed == 1 \in ok
         IN [count |-> IF changed THEN count + size ELSE count,
             inl |-> <<InlCall(candidate.node, 1, size, changed)>>,
             changed |-> changed]
  ELSE LET r == InlineBranches(candidate, force_inline, ok, 1, count, <<>>)
       IN [count |-> r.count, inl |-> r.inl, changed |-> r.count # count]

\* InlineCandidate: the new counter, the inliner invocations made, and
\* whether the returned Reduction is Changed.
InlineCandidate(candidate, force_inline, ok, count) ==
  IF candidate.num_functions = 1
    THEN LET size == candidate.functions[1].length
             changed == 1 \in ok
         IN [count |-> IF changed THEN count + size ELSE count,
             inl |-> <<InlCall(candidate.node, 1, size, changed)>>,
             changed |-> changed]
  ELSE LET r == InlineBranches(candidate, force_inline, ok, 1, count, <<>>)
       IN [count |-> r.count, inl |-> r.inl, changed |-> TRUE]

\* The inlining-depth walk of Reduce: TRUE when the number of JS-function
\* frames above the call exceeds FLAG_max_inlining_levels.
RECURSIVE DepthExceeded(_, _)
DepthExceeded(chain, level) ==
  IF chain = <<>> THEN FALSE
  ELSE IF Head(chain)
    THEN IF level + 1 > FLAG_max_inlining_levels THEN TRUE
         ELSE DepthExceeded(Tail(chain), level + 1)
  ELSE DepthExceeded(Tail(chain), level)

\* Mutant of MakeCandidate: every target is recorded as inlinable.
MakeCandidateAllInlinable(n, functions, frequency) ==
  LET num == Len(functions)
  IN [node |-> n,
      functions |-> functions,
      num_functions |-> num,
      can_inline_function |-> [i \in 1..num |-> TRUE],
      total_size |-> SumSeq([i \in 1..num |->
                       IF CanInlineFunction(functions[i])
                         THEN functions[i].length ELSE 0]),
      frequency |-> frequency]

\* The Candidate built by Reduce for a node.
MakeCandidate(n, functions, frequency) ==
  LET num == Len(functions)
      can == [i \in 1..num |-> CanInlineFunction(functions[i])]
  IN [node |-> n,
      functions |-> functions,
      num_functions |-> num,
      can_inline_function |-> can,
      total_size |-> SumSeq([i \in 1..num |->
                       IF can[i] THEN functions[i].length ELSE 0]),
      frequency |-> frequency]

\* History record of one operation: its inputs as the code reads them
\* (callee shape, resolved targets, frequency, depth verdict), the branch
\* taken (path), the counter before, the inliner invocations (inl), the
\* candidates Finalize removed (removed) and the Reduction (changed).
Op(kind, node, path, before, inl, removed, changed, phi, fns, freq, deep) ==
  [kind |-> kind, node |-> node, path |-> path, before |-> before,
   inl |-> inl, removed |-> removed, changed |-> changed,
   phi_inputs |-> phi, functions |-> fns, frequency |-> freq,
   too_deep |-> deep]

NoOp == Op("Init", 0, "none", 0, <<>>, <<>>, FALSE, 0, <<>>, Unknown, FALSE)

\* The comparator harness before any input is drawn.
CmpIdle == [phase |-> "idle", in |-> <<>>, lt |-> <<>>, set |-> <<>>,
            grew |-> <<>>]

\* No graph at hand.
GIdle == [phase |-> "idle"]

Init ==
  /\ mode \in Modes
  /\ polymorphic \in BOOLEAN
  /\ seen = {}
  /\ candidates = <<>>
  /\ cumulative_count = 0
  /\ lastOp = NoOp
  /\ cmp = CmpIdle
  /\ g = GIdle

\* Mutant of UnderAbsoluteCap: the counter must be strictly below the cap.
UnderAbsoluteCapStrict(count) ==
  count < FLAG_max_inlined_bytecode_size_absolute

\* The budget check of Reduce for a call site whose targets are all small.
UnderAbsoluteCap(count) == count <= FLAG_max_inlined_bytecode_size_absolute

\* Mutant of AlreadySeen: the seen-set is never consulted.
AlreadySeenNever(n) == FALSE

\* The seen-set lookup of Reduce.
AlreadySeen(n) == n \in seen

\* JSInliningHeuristic::Reduce(node) for call node n.  The opcode, the
\* callee, the frame-state chain and the frequency are what the graph holds
\* for n; each is drawn where the code reads it.  ok is the set of branches
\* for which the inliner answers Changed.
Reduce(n) ==
  /\ UNCHANGED <<mode, polymorphic, others>>
  /\ \E opcode \in Opcodes :
       IF opcode = "Other"
         THEN /\ lastOp' = Op("Reduce", 0, "notInlinee", cumulative_count,
                              <<>>, <<>>, FALSE, 0, <<>>, Unknown, FALSE)
              /\ UNCHANGED <<seen, candidates, cumulative_count>>
       ELSE IF AlreadySeen(n)
         THEN /\ lastOp' = Op("Reduce", n, "seen", cumulative_count,
                              <<>>, <<>>, FALSE, 0, <<>>, Unknown, FALSE)
              /\ UNCHANGED <<seen, candidates, cumulative_count>>
       ELSE \E callee \in Callees :
         LET functions == CollectFunctions(callee, kMaxCallPolymorphism)
             num == Len(functions)
             can_inline == \E i \in 1..num : CanInlineFunction(functions[i])
             force_inline == \A i \in 1..num : functions[i].force_inline
             small_inline ==
               \A i \in 1..num : IsSmallInlineFunction(functions[i])
             Rec(path, inl, changed, frequency, too_deep) ==
               Op("Reduce", n, path, cumulative_count, inl, <<>>, changed,
                  IF callee.kind = "Phi" THEN Len(callee.inputs) ELSE 0,
                  functions, frequency, too_deep)
             Stop(path, frequency, too_deep) ==
               /\ lastOp' = Rec(path, <<>>, FALSE, frequency, too_deep)
               /\ UNCHANGED <<candidates, cumulative_count>>
             Inline(path, candidate, force, too_deep) ==
               \E ok \in SUBSET (1..num) :
                 LET r == InlineCandidate(candidate, force, ok,
                                          cumulative_count)
                 IN /\ cumulative_count' = r.count
                    /\ lastOp' = Rec(path, r.inl, r.changed,
                                     candidate.frequency, too_deep)
                    /\ UNCHANGED candidates
         IN /\ seen' = seen \cup {n}
            /\ IF num = 0 THEN Stop("noTargets", Unknown, FALSE)
               ELSE IF num > 1 /\ ~polymorphic
                 THEN Stop("polyDisabled", Unknown, FALSE)
               ELSE IF force_inline
                 THEN Inline("forced", MakeCandidate(n, functions, Unknown),
                             TRUE, FALSE)
               ELSE IF ~can_inline THEN Stop("cannotInline", Unknown, FALSE)
               ELSE \E chain \in FrameChains :
                 IF DepthExceeded(chain, 0)
                   THEN Stop("tooDeep", Unknown, TRUE)
                 ELSE \E frequency \in Frequencies :
                   LET candidate == MakeCandidate(n, functions, frequency)
                   IN IF mode = "kRestrictedInlining"
                        THEN Stop("restricted", frequency, FALSE)
                      ELSE IF mode = "kStressInlining"
                        THEN Inline("stress", candidate, FALSE, FALSE)
                      ELSE IF frequency.known
                              /\ frequency.value < FLAG_min_inlining_frequency
                        THEN Stop("lowFrequency", frequency, FALSE)
                      ELSE IF small_inline
                              /\ UnderAbsoluteCap(cumulative_count)
                        THEN Inline("small", candidate, TRUE, FALSE)
                      ELSE /\ candidates' = SetInsert(candidates, candidate)
                           /\ lastOp' = Rec("enqueued", <<>>, FALSE,
                                            frequency, FALSE)
                           /\ UNCHANGED cumulative_count

\* Record of one candidate removed by Finalize: the counter when it was
\* removed, what became of it, and what candidate.node->IsDead() answered
\* (FALSE where the code does not ask).
Removal(candidate, count, disp, is_dead) ==
  [node |-> candidate.node, frequency |-> candidate.frequency,
   total_size |-> candidate.total_size,
   num_functions |-> candidate.num_functions,
   count |-> count, disp |-> disp, dead |-> is_dead]

\* Mutant of OverBudget: only the counter is compared with the cap.
OverBudgetCounterOnly(candidate, count) ==
  count > FLAG_max_inlined_bytecode_size_cumulative

\* Mutant of OverBudget: the scaled size is not truncated to int.
OverBudgetExact(candidate, count) ==
  count * ScaleDen + candidate.total_size * ScaleNum
    > FLAG_max_inlined_bytecode_size_cumulative * ScaleDen

\* Mutant of OverBudget: the budget check never fires.
OverBudgetNever(candidate, count) == FALSE

\* The budget check of Finalize: the counter plus the candidate's size
\* scaled by the reserve factor (truncated to int) exceeds the cumulative cap.
OverBudget(candidate, count) ==
  LET size_of_candidate == (candidate.total_size * ScaleNum) \div ScaleDen
      total_size == count + size_of_candidate
  IN total_size > FLAG_max_inlined_bytecode_size_cumulative

\* Mutant of SkipsDead: a dead candidate node is inlined like a live one.
SkipsDeadNever(is_dead) == FALSE

\* The liveness check of Finalize: is_dead is what candidate.node->IsDead()
\* answers; InlineCandidate is not called on a dead node.
SkipsDead(is_dead) == is_dead

\* Mutant of StopsDraining: Finalize keeps draining after a change.
StopsDrainingNever(reduction) == FALSE

\* Finalize returns as soon as InlineCandidate reports a change.
StopsDraining(reduction) == reduction.changed

\* The while loop of Finalize over the remaining backlog cands: the set of
\* ways it can end.  For each candidate that is within budget the graph
\* answers IsDead() or not, and the inliner answers Changed for any set ok
\* of the candidate's branches.
RECURSIVE FinalizeLoop(_, _, _, _)
\* Mutant of FinalizeLoop: the loop stops at a candidate that is over
\* budget and leaves it in the backlog.
FinalizeLoopStopsOverBudget(cands, count, inl, removed) ==
  IF cands = <<>>
    THEN {[candidates |-> cands, count |-> count, inl |-> inl,
           removed |-> removed]}
  ELSE LET candidate == Head(cands)
           rest == Tail(cands)
           Attempt(ok, is_dead) ==
             LET r == InlineCandidate(candidate, FALSE, ok, count)
                 rem == Append(removed,
                          Removal(candidate, count,
                            IF r.changed THEN "changed" ELSE "unchanged",
                            is_dead))
             IN IF StopsDraining(r)
                  THEN {[candidates |-> rest, count |-> r.count,
                         inl |-> inl \o r.inl, removed |-> rem]}
                ELSE FinalizeLoop(rest, r.count, inl \o r.inl, rem)
       IN IF OverBudget(candidate, count)
            THEN {[candidates |-> cands, count |-> count, inl |-> inl,
                   removed |-> removed]}
          ELSE UNION {
                 IF SkipsDead(is_dead)
                   THEN FinalizeLoop(rest, count, inl,
                          Append(removed,
                                 Removal(candidate, count, "dead", is_dead)))
                 ELSE UNION { Attempt(ok, is_dead) :
                                ok \in SUBSET (1..candidate.num_functions) }
                 : is_dead \in BOOLEAN }

FinalizeLoop(cands, count, inl, removed) ==
  IF cands = <<>>
    THEN {[candidates |-> cands, count |-> count, inl |-> inl,
           removed |-> removed]}
  ELSE LET candidate == Head(cands)
           rest == Tail(cands)
           Attempt(ok, is_dead) ==
             LET r == InlineCandidate(candidate, FALSE, ok, count)
                 rem == Append(removed,
                          Removal(candidate, count,
                            IF r.changed THEN "changed" ELSE "unchanged",
                            is_dead))
             IN IF StopsDraining(r)
                  THEN {[candidates |-> rest, count |-> r.count,
                         inl |-> inl \o r.inl, removed |-> rem]}
                ELSE FinalizeLoop(rest, r.count, inl \o r.inl, rem)
       IN IF OverBudget(candidate, count)
            THEN FinalizeLoop(rest, count, inl,
                   Append(removed,
                          Removal(candidate, count, "overBudget", FALSE)))
          ELSE UNION {
                 IF SkipsDead(is_dead)
                   THEN FinalizeLoop(rest, count, inl,
                          Append(removed,
                                 Removal(candidate, count, "dead", is_dead)))
                 ELSE UNION { Attempt(ok, is_dead) :
                                ok \in SUBSET (1..candidate.num_functions) }
                 : is_dead \in BOOLEAN }

\* JSInliningHeuristic::Finalize()
Finalize ==
  \E r \in FinalizeLoop(candidates, cumulative_count, <<>>, <<>>) :
     /\ candidates' = r.candidates
     /\ cumulative_count' = r.count
     /\ lastOp' = Op("Finalize", 0, "finalize", cumulative_count, r.inl,
                     r.removed, \E k \in 1..Len(r.removed) :
                                  r.removed[k].disp = "changed",
                     0, <<>>, Unknown, FALSE)
     /\ UNCHANGED <<mode, polymorphic, seen, others>>

ReduceStep == \E n \in Nodes : Reduce(n)

Next == ReduceStep \/ Finalize

Spec == Init /\ [][Next]_vars

\* The collector and scheduler under a driver that keeps invoking Finalize:
\* a Finalize that would change the state is not postponed forever.
FairSpec == Init /\ [][Next]_vars /\ WF_vars(Finalize)

\* ======================================================================
\* Properties of the collector and the scheduler (specification Spec)
\* ======================================================================

\* The call nodes waiting in a backlog.
NodesOf(cands) == {cands[k].node : k \in 1..Len(cands)}

\* Total size of the inliner invocations of inl that answered Changed.
RECURSIVE SumChanged(_)
SumChanged(inl) ==
  IF inl = <<>> THEN 0
  ELSE (IF Head(inl).changed THEN Head(inl).size ELSE 0) + SumChanged(Tail(inl))

\* The inliner invocations of inl made for call node n.
InlFor(inl, n) == {k \in 1..Len(inl) : inl[k].node = n}

\* C1: in every step the counter does not decrease, and it grows by exactly
\* the bytecode sizes of the calls for which the inliner answered Changed in
\* that step (so by zero when the inliner answered Unchanged, or when the
\* candidate was discarded, enqueued or skipped as dead).
C1_CounterMonotone ==
  [][ /\ cumulative_count' >= cumulative_count
      /\ cumulative_count' = cumulative_count + SumChanged(lastOp'.inl)
      /\ lastOp'.before = cumulative_count ]_vars

\* Witness of C1: a Finalize that inlined two branches of one polymorphic
\* candidate, having moved the counter by both sizes.
C1_Witness ==
  /\ lastOp.kind = "Finalize"
  /\ Cardinality({k \in 1..Len(lastOp.inl) : lastOp.inl[k].changed}) = 2
  /\ \E k \in 1..Len(lastOp.inl) : ~lastOp.inl[k].changed
  /\ cumulative_count > lastOp.before

\* C2: a Reduce on a node that is already in the seen-set invokes no
\* inliner, reports NoChange and leaves backlog and counter alone; the
\* seen-set never shrinks; the backlog never holds two candidates for the
\* same call node.
C2_Dedup ==
  [][ /\ seen \subseteq seen'
      /\ \A n \in Nodes :
           (lastOp'.kind = "Reduce" /\ lastOp'.node = n /\ n \in seen)
             => /\ lastOp'.inl = <<>>
                /\ ~lastOp'.changed
                /\ UNCHANGED <<candidates, cumulative_count, seen>>
      /\ \A j, k \in 1..Len(candidates') :
           candidates'[j].node = candidates'[k].node => j = k ]_vars

\* Witness of C2: a second Reduce on a call node that waits in the backlog.
C2_Witness ==
  /\ lastOp.kind = "Reduce"
  /\ lastOp.path = "seen"
  /\ lastOp.node \in seen
  /\ lastOp.node \in NodesOf(candidates)

\* Priority as the scheduler's contract states it: known before unknown,
\* higher known frequency first, larger node id on a tie.
HasPriority(a, b) ==
  \/ a.frequency.known /\ ~b.frequency.known
  \/ a.frequency.known /\ b.frequency.known
       /\ a.frequency.value > b.frequency.value
  \/ /\ a.frequency.known = b.frequency.known
     /\ (a.frequency.known => a.frequency.value = b.frequency.value)
     /\ a.node > b.node

\* C3: every candidate Finalize removes has priority over every candidate
\* present at that moment, that is over those removed after it and those
\* left in the backlog; what it removes was in the backlog.
C3_HighestPriorityFirst ==
  [][ lastOp'.kind = "Finalize" =>
        LET r == lastOp'.removed
        IN /\ NodesOf(r) \cup NodesOf(candidates') = NodesOf(candidates)
           /\ \A k \in 1..Len(r) :
                /\ \A j \in (k + 1)..Len(r) : HasPriority(r[k], r[j])
                /\ \A j \in 1..Len(candidates') :
                     HasPriority(r[k], candidates'[j]) ]_vars

\* Witness of C3: Finalize removed a known-frequency candidate with the
\* smaller node id before an unknown-frequency one.
C3_Witness ==
  /\ lastOp.kind = "Finalize"
  /\ Len(lastOp.removed) >= 2
  /\ lastOp.removed[1].frequency.known
  /\ ~lastOp.removed[2].frequency.known
  /\ lastOp.removed[1].node < lastOp.removed[2].node

\* C4: in one Finalize at most one removed candidate has InlineCandidate
\* report a change, and it is the last one removed; the candidates behind
\* it stay in the backlog in order and none of them is handed to the
\* inliner.
C4_OneSubstitutionPerFinalize ==
  [][ lastOp'.kind = "Finalize" =>
        LET r == lastOp'.removed
            m == Len(r)
        IN /\ m <= Len(candidates)
           /\ \A k \in 1..m : r[k].node = candidates[k].node
           /\ \A k \in 1..m : r[k].disp = "changed" => k = m
           /\ candidates' = SubSeq(candidates, m + 1, Len(candidates))
           /\ \A k \in 1..Len(lastOp'.inl) :
                lastOp'.inl[k].node \in NodesOf(r)
           /\ lastOp'.changed = (\E k \in 1..m : r[k].disp = "changed") ]_vars

\* Witness of C4: Finalize stopped after a substitution with a candidate
\* still waiting.
C4_Witness ==
  /\ lastOp.kind = "Finalize"
  /\ lastOp.changed
  /\ candidates # <<>>

\* The reserved cost Finalize charges for a candidate of aggregate size
\* size.
ReservedCost(size) == (size * ScaleNum) \div ScaleDen

\* C5: a candidate removed while the counter plus its reserved cost exceeds
\* the cumulative cap is dropped: the inliner is not invoked on it, it is
\* not in the backlog afterwards, the counter is the same when the next
\* candidate is looked at, and the same Finalize goes on to the next
\* candidate (it ends there only if the backlog is exhausted); no Finalize
\* or Reduce ever puts a seen node back into the backlog.
C5_OverBudgetDropped ==
  [][ /\ NodesOf(candidates') \subseteq NodesOf(candidates) \cup (Nodes \ seen)
      /\ lastOp'.kind = "Finalize" =>
           LET r == lastOp'.removed
           IN \A k \in 1..Len(r) :
                (r[k].count + ReservedCost(r[k].total_size)
                   > FLAG_max_inlined_bytecode_size_cumulative)
                => /\ r[k].disp = "overBudget"
                   /\ InlFor(lastOp'.inl, r[k].node) = {}
                   /\ r[k].node \notin NodesOf(candidates')
                   /\ r[k].node \in seen'
                   /\ IF k < Len(r) THEN r[k + 1].count = r[k].count
                      ELSE /\ candidates' = <<>>
                           /\ cumulative_count' = r[k].count ]_vars

\* Witness of C5: with cap 500 and counter 0, A (size 1000, frequency 9)
\* was discarded and B (size 10, frequency 1) inlined by the same Finalize.
C5_Witness ==
  /\ lastOp.kind = "Finalize"
  /\ lastOp.before = 0
  /\ Len(lastOp.removed) = 2
  /\ lastOp.removed[1].total_size = 1000
  /\ lastOp.removed[1].frequency = Known(9)
  /\ lastOp.removed[1].disp = "overBudget"
  /\ lastOp.removed[2].total_size = 10
  /\ lastOp.removed[2].frequency = Known(1)
  /\ lastOp.removed[2].disp = "changed"
  /\ cumulative_count = 10

\* C6: a callee phi with more value inputs than kMaxCallPolymorphism
\* resolves to no target, and the Reduce neither invokes the inliner nor
\* enqueues nor moves the counter; the number of resolved targets is always
\* between 0 and kMaxCallPolymorphism.
C6_PolymorphismCap ==
  lastOp.kind = "Reduce" =>
    /\ Len(lastOp.functions) \in 0..kMaxCallPolymorphism
    /\ lastOp.phi_inputs > kMaxCallPolymorphism
         => /\ lastOp.functions = <<>>
            /\ lastOp.inl = <<>>
            /\ ~lastOp.changed
            /\ lastOp.node \notin NodesOf(candidates)
            /\ cumulative_count = lastOp.before

\* Witness of C6: a Reduce of a call whose callee phi has one input more
\* than the cap.
C6_Witness ==
  /\ lastOp.kind = "Reduce"
  /\ lastOp.phi_inputs = kMaxCallPolymorphism + 1
  /\ lastOp.node \in seen

\* A target is inlinable: not a built-in, user code, compiled, and not
\* larger than the per-function maximum.
TargetInlinable(f) ==
  /\ ~f.builtin
  /\ f.user_js
  /\ f.has_bytecode
  /\ f.length <= FLAG_max_inlined_bytecode_size

\* A target is small: compiled and not above the small-function threshold.
TargetSmall(f) ==
  f.has_bytecode /\ f.length <= FLAG_max_inlined_bytecode_size_small

\* The call site of a Reduce is one the general mode defers: some target
\* inlinable, not all force-inline, within the depth limit, frequency
\* unknown or at least the minimum, not all targets small.
DeferredCallSite(op) ==
  /\ op.kind = "Reduce"
  /\ mode = "kGeneralInlining"
  /\ op.functions # <<>>
  /\ \E i \in 1..Len(op.functions) : TargetInlinable(op.functions[i])
  /\ ~(\A i \in 1..Len(op.functions) : op.functions[i].force_inline)
  /\ ~op.too_deep
  /\ (~op.frequency.known
        \/ op.frequency.value >= FLAG_min_inlining_frequency)
  /\ ~(\A i \in 1..Len(op.functions) : TargetSmall(op.functions[i]))

\* The Reduce put its call site into the backlog and did nothing else.
Enqueued(op) ==
  /\ op.node \in NodesOf(candidates)
  /\ op.inl = <<>>
  /\ ~op.changed
  /\ cumulative_count = op.before

\* Entry k of the candidates a Finalize removed was within budget.
WithinBudget(e) ==
  e.count + ReservedCost(e.total_size)
    <= FLAG_max_inlined_bytecode_size_cumulative

\* The inliner was invoked for removed entry k of a Finalize, and if all
\* its invocations answered Changed the Finalize ended there with the
\* counter raised by exactly the candidate's size.
Attempted(op, k) ==
  LET e == op.removed[k]
      calls == InlFor(op.inl, e.node)
  IN /\ calls # {}
     /\ (\A c \in calls : op.inl[c].changed)
          => /\ k = Len(op.removed)
             /\ cumulative_count = e.count + e.total_size

\* C9 as stated: every deferred call site is enqueued by Reduce without
\* the inliner and without a counter change, and every candidate a Finalize
\* finds within budget is handed to the inliner and, on success, raises the
\* counter by exactly its size.
C9_Original ==
  /\ DeferredCallSite(lastOp) => Enqueued(lastOp)
  /\ lastOp.kind = "Finalize" =>
       \A k \in 1..Len(lastOp.removed) :
         WithinBudget(lastOp.removed[k]) => Attempted(lastOp, k)

\* C9 (amended): the same, for a call site that has a single target or is
\* reduced with polymorphic inlining enabled, and for a candidate whose
\* call node is still live when Finalize removes it.
C9_DeferredThenInlined ==
  /\ (DeferredCallSite(lastOp)
        /\ (Len(lastOp.functions) = 1 \/ polymorphic))
       => Enqueued(lastOp)
  /\ lastOp.kind = "Finalize" =>
       \A k \in 1..Len(lastOp.removed) :
         (WithinBudget(lastOp.removed[k])
            /\ lastOp.removed[k].disp # "dead")
         => Attempted(lastOp, k)

\* Witness of C9: a call site with one target of size 10 and unknown
\* frequency was enqueued, and a Finalize starting from counter 0 inlined it,
\* leaving the counter at 10.
C9_Witness ==
  /\ lastOp.kind = "Finalize"
  /\ lastOp.before = 0
  /\ Len(lastOp.removed) = 1
  /\ lastOp.removed[1].num_functions = 1
  /\ lastOp.removed[1].total_size = 10
  /\ ~lastOp.removed[1].frequency.known
  /\ lastOp.removed[1].disp = "changed"
  /\ cumulative_count = 10

\* ======================================================================
\* The comparator on its own (specification CSpec)
\* ======================================================================

\* Node ids of the candidates handed to the comparator.
MaxCmpNode == 3

\* What CandidateCompare reads of a candidate.
CmpCandidates == [node : 1..MaxCmpNode, frequency : Frequencies]

CInit ==
  /\ mode = "kGeneralInlining"
  /\ polymorphic = TRUE
  /\ seen = {}
  /\ candidates = <<>>
  /\ cumulative_count = 0
  /\ lastOp = NoOp
  /\ g = GIdle
  /\ \E a, b, c \in CmpCandidates :
       cmp = [phase |-> "input", in |-> <<a, b, c>>, lt |-> <<>>,
              set |-> <<>>, grew |-> <<>>]

\* CandidateCompare applied to every ordered pair of the inputs.
CompareAll ==
  /\ cmp.phase = "input"
  /\ cmp' = [cmp EXCEPT
              !.phase = "compared",
              !.lt = [i \in 1..3 |-> [j \in 1..3 |->
                        CandidateCompare(cmp.in[i], cmp.in[j])]]]
  /\ UNCHANGED <<mode, polymorphic, seen, candidates, cumulative_count,
                 lastOp, g>>

\* candidates_.insert of the next input into the std::set.
InsertNext ==
  /\ cmp.phase = "compared"
  /\ Len(cmp.grew) < 3
  /\ LET c == cmp.in[Len(cmp.grew) + 1]
         after == SetInsert(cmp.set, c)
     IN cmp' = [cmp EXCEPT
                 !.set = after,
                 !.grew = Append(cmp.grew,
                            [fresh |-> c.node \notin NodesOf(cmp.set),
                             added |-> Len(after) = Len(cmp.set) + 1
                                       /\ \E k \in 1..Len(after) :
                                            after[k] = c])]
  /\ UNCHANGED <<mode, polymorphic, seen, candidates, cumulative_count,
                 lastOp, g>>

CNext == CompareAll \/ InsertNext

CSpec == CInit /\ [][CNext]_vars

\* C10: on candidates with distinct node ids CandidateCompare is
\* irreflexive, asymmetric and transitive and leaves no two of them
\* equivalent; inserting a candidate whose node is not in the set adds it.
C10_StrictWeakOrdering ==
  /\ cmp.lt # <<>> =>
       /\ \A i \in 1..3 : ~cmp.lt[i][i]
       /\ \A i, j \in 1..3 : cmp.lt[i][j] => ~cmp.lt[j][i]
       /\ \A i, j \in 1..3 :
            cmp.in[i].node # cmp.in[j].node => cmp.lt[i][j] \/ cmp.lt[j][i]
       /\ \A i, j, k \in 1..3 :
            (/\ cmp.in[i].node # cmp.in[j].node
             /\ cmp.in[j].node # cmp.in[k].node
             /\ cmp.in[i].node # cmp.in[k].node
             /\ cmp.lt[i][j] /\ cmp.lt[j][k]) => cmp.lt[i][k]
  /\ \A i \in 1..Len(cmp.grew) : cmp.grew[i].fresh => cmp.grew[i].added

\* Witness of C10: three candidates of unknown frequency on three nodes
\* were compared and all three went into the set.
C10_Witness ==
  /\ Len(cmp.grew) = 3
  /\ Len(cmp.set) = 3
  /\ \A i \in 1..3 : ~cmp.in[i].frequency.known

\* ======================================================================
\* Part 2: the graph
\* ======================================================================
\* A graph is the sequence of its nodes in creation order; a node is named
\* by its position.  A node has an operator (op), its inputs (in, input i
\* of the code at position i + 1) and, for a HeapConstant, the function it
\* holds (fn, a position in HeapConstantFns; 0 for any other node).
Null == 0

GNode(op, in, fn) == [op |-> op, in |-> in, fn |-> fn]

\* graph()->NewNode(op, inputs): the new node is the last one.
NewNode(graph, op, in) == Append(graph, GNode(op, in, 0))

\* graph()->CloneNode(n): same operator, same inputs.
CloneNode(graph, n) == Append(graph, graph[n])

InputCount(graph, n) == Len(graph[n].in)

InputAt(graph, n, i) == graph[n].in[i + 1]

ReplaceInput(graph, n, i, to) == [graph EXCEPT ![n].in[i + 1] = to]

\* Node::Kill(): every input of the node is cleared.
Kill(graph, n) == [graph EXCEPT ![n].in = [k \in DOMAIN @ |-> Null]]

\* The use edges of n: the pairs of a user and the index of its input.
UseEdges(graph, n) ==
  { e \in UNION { { <<m, i>> : i \in 0..(InputCount(graph, m) - 1) }
                  : m \in 1..Len(graph) } :
      InputAt(graph, e[1], e[2]) = n }

UseCount(graph, n) == Cardinality(UseEdges(graph, n))

\* NodeProperties: control is the last input of a call, a checkpoint and a
\* phi; effect is the one before it; the frame state of a call the one
\* before that.
GetControlInput(graph, n) == InputAt(graph, n, InputCount(graph, n) - 1)

GetEffectInput(graph, n) == InputAt(graph, n, InputCount(graph, n) - 2)

GetFrameStateInput(graph, n) == InputAt(graph, n, InputCount(graph, n) - 3)

GetValueInput(graph, n, i) == InputAt(graph, n, i)

\* Inputs of a FrameState node (parameters at 0).
kFrameStateLocalsInput == 1
kFrameStateStackInput == 2

\* Size of the replaceable_uses buffer of TryReuseDispatch.
kMaxUses == 8

\* The nodes every graph starts with: jsgraph()->Dead(), the canonical
\* heap constants of the functions, a value that is not the callee, and
\* the start of the effect and control chains.
Dead == 1
HeapConstantFns == <<fSmall, fTen, fForceBuiltin>>
Other == Len(HeapConstantFns) + 2
Start == Other + 1

\* jsgraph()->HeapConstant(function): the canonical node of the function.
HeapConstant(function) ==
  1 + CHOOSE k \in 1..Len(HeapConstantFns) : HeapConstantFns[k] = function

BaseGraph ==
  <<GNode("Dead", <<>>, 0)>>
  \o [k \in 1..Len(HeapConstantFns) |-> GNode("HeapConstant", <<>>, k)]
  \o <<GNode("Parameter", <<>>, 0), GNode("Start", <<>>, 0)>>

\* ------------------------------------------------- snapshot duplication
\* The loop of CollectStateValuesOwnedUses from input i on.  uses is the
\* buffer filled so far; the result says whether the buffer sufficed.
RECURSIVE CollectStateValuesOwnedUses(_, _, _, _, _)
RECURSIVE CollectOwnedInputs(_, _, _, _, _, _)
CollectOwnedInputs(graph, node, state_values, uses, max_uses, i) ==
  IF i >= InputCount(graph, state_values) THEN [ok |-> TRUE, uses |-> uses]
  ELSE LET input == InputAt(graph, state_values, i)
       IN IF graph[input].op = "StateValues"
            THEN LET r == CollectStateValuesOwnedUses(graph, node, input,
                                                      uses, max_uses)
                 IN IF ~r.ok THEN [ok |-> FALSE, uses |-> r.uses]
                    ELSE CollectOwnedInputs(graph, node, state_values,
                                            r.uses, max_uses, i + 1)
          ELSE IF input = node
            THEN IF Len(uses) >= max_uses
                   THEN [ok |-> FALSE, uses |-> uses]
                 ELSE CollectOwnedInputs(graph, node, state_values,
                        Append(uses, <<state_values, i>>), max_uses, i + 1)
          ELSE CollectOwnedInputs(graph, node, state_values, uses,
                                  max_uses, i + 1)

\* Mutant of CollectStateValuesOwnedUses: a shared StateValues node is
\* searched like an owned one.
CollectStateValuesOwnedUsesShared(graph, node, state_values, uses, max_uses) ==
  CollectOwnedInputs(graph, node, state_values, uses, max_uses, 0)

CollectStateValuesOwnedUses(graph, node, state_values, uses, max_uses) ==
  IF UseCount(graph, state_values) > 1 THEN [ok |-> TRUE, uses |-> uses]
  ELSE CollectOwnedInputs(graph, node, state_values, uses, max_uses, 0)

CollectFrameStateUniqueUses(graph, node, frame_state, uses, max_uses) ==
  IF UseCount(graph, frame_state) > 1 THEN [ok |-> TRUE, uses |-> uses]
  ELSE LET hit == InputAt(graph, frame_state, kFrameStateStackInput) = node
       IN IF hit /\ Len(uses) >= max_uses THEN [ok |-> FALSE, uses |-> uses]
          ELSE CollectStateValuesOwnedUses(graph, node,
                 InputAt(graph, frame_state, kFrameStateLocalsInput),
                 IF hit
                   THEN Append(uses, <<frame_state, kFrameStateStackInput>>)
                 ELSE uses,
                 max_uses)

\* The loop of DuplicateStateValuesAndRename from input i on; copy is Null
\* while no copy has been made.  The result is the graph and the node
\* returned.
RECURSIVE DuplicateStateValuesAndRename(_, _, _, _, _)
RECURSIVE RenameInputs(_, _, _, _, _, _, _)
RenameInputs(graph, state_values, from, to, clone_mode, copy, i) ==
  IF i >= InputCount(graph, state_values)
    THEN [graph |-> graph,
          node |-> IF copy # Null THEN copy ELSE state_values]
  ELSE LET input == InputAt(graph, state_values, i)
           r == IF graph[input].op = "StateValues"
                  THEN DuplicateStateValuesAndRename(graph, input, from, to,
                                                     clone_mode)
                ELSE IF input = from THEN [graph |-> graph, node |-> from]
                ELSE [graph |-> graph, node |-> input]
           processed == r.node
       IN IF processed # input
            THEN LET g1 == IF copy = Null
                             THEN CloneNode(r.graph, state_values)
                           ELSE r.graph
                     c1 == IF copy = Null THEN Len(g1) ELSE copy
                 IN RenameInputs(ReplaceInput(g1, c1, i, processed),
                                 state_values, from, to, clone_mode, c1,
                                 i + 1)
          ELSE RenameInputs(r.graph, state_values, from, to, clone_mode,
                            copy, i + 1)

DuplicateStateValuesAndRename(graph, state_values, from, to, clone_mode) ==
  IF UseCount(graph, state_values) > 1
    THEN [graph |-> graph, node |-> state_values]
  ELSE RenameInputs(graph, state_values, from, to, clone_mode,
                    IF clone_mode = "kChangeInPlace" THEN state_values
                    ELSE Null,
                    0)

\* The stack slot of DuplicateFrameStateAndRename: the graph, and the copy
\* that stands for the frame state from here on (Null while there is none).
RenameStack(graph, frame_state, from, to, copy) ==
  IF InputAt(graph, frame_state, kFrameStateStackInput) # from
    THEN [graph |-> graph, copy |-> copy]
  ELSE IF copy = Null
    THEN [graph |-> ReplaceInput(CloneNode(graph, frame_state),
                                 Len(graph) + 1, kFrameStateStackInput, to),
          copy |-> Len(graph) + 1]
  ELSE [graph |-> ReplaceInput(graph, copy, kFrameStateStackInput, to),
        copy |-> copy]

\* The locals slot of DuplicateFrameStateAndRename: r is what
\* DuplicateStateValuesAndRename returned for locals.  The result is the
\* graph and the node returned.
RenameLocals(r, frame_state, locals, copy) ==
  IF r.node = locals
    THEN [graph |-> r.graph,
          node |-> IF copy # Null THEN copy ELSE frame_state]
  ELSE IF copy = Null
    THEN [graph |-> ReplaceInput(CloneNode(r.graph, frame_state),
                                 Len(r.graph) + 1, kFrameStateLocalsInput,
                                 r.node),
          node |-> Len(r.graph) + 1]
  ELSE [graph |-> ReplaceInput(r.graph, copy, kFrameStateLocalsInput,
                               r.node),
        node |-> copy]

\* DuplicateFrameStateAndRename after the stack slot; s is what RenameStack
\* returned.
RenameFrameState(s, frame_state, from, to, clone_mode) ==
  RenameLocals(
    DuplicateStateValuesAndRename(
      s.graph, InputAt(s.graph, frame_state, kFrameStateLocalsInput),
      from, to, clone_mode),
    frame_state, InputAt(s.graph, frame_state, kFrameStateLocalsInput),
    s.copy)

\* Mutant of DuplicateFrameStateAndRename: a shared frame state is renamed
\* like an owned one.
DuplicateFrameStateAndRenameShared(graph, frame_state, from, to, clone_mode) ==
  RenameFrameState(
    RenameStack(graph, frame_state, from, to,
                IF clone_mode = "kChangeInPlace" THEN frame_state ELSE Null),
    frame_state, from, to, clone_mode)

DuplicateFrameStateAndRename(graph, frame_state, from, to, clone_mode) ==
  IF UseCount(graph, frame_state) > 1
    THEN [graph |-> graph, node |-> frame_state]
  ELSE RenameFrameState(
         RenameStack(graph, frame_state, from, to,
                     IF clone_mode = "kChangeInPlace" THEN frame_state
                     ELSE Null),
         frame_state, from, to, clone_mode)

\* ------------------------------------------------------------- dispatch
\* The checkpoint of one specialized call: c is what
\* DuplicateFrameStateAndRename returned for the checkpoint's frame state.
\* The result is the graph and the call's effect input.
NewCheckpoint(c, op, effect, control) ==
  [graph |-> NewNode(c.graph, op, <<c.node, effect, control>>),
   effect |-> Len(c.graph) + 1]

\* The checkpoint part of one round of the cloning loop.
CloneCheckpoint(graph, callee, checkpoint, target, effect, control, clone_mode) ==
  IF checkpoint = Null THEN [graph |-> graph, effect |-> effect]
  ELSE NewCheckpoint(
         DuplicateFrameStateAndRename(graph, InputAt(graph, checkpoint, 0),
                                      callee, target, clone_mode),
         graph[checkpoint].op, effect, control)

\* The specialized call of one round: f is what
\* DuplicateFrameStateAndRename returned for the call's frame state.
NewCall(f, node, target, effect, control) ==
  NewNode(f.graph, f.graph[node].op,
          [k \in 1..InputCount(f.graph, node) |->
             IF k = 1 THEN target
             ELSE IF k = InputCount(f.graph, node) - 2 THEN f.node
             ELSE IF k = InputCount(f.graph, node) - 1 THEN effect
             ELSE IF k = InputCount(f.graph, node) THEN control
             ELSE InputAt(f.graph, node, k - 1)])

\* The call part of one round; e is what CloneCheckpoint returned.
CloneCall(e, node, callee, target, control, clone_mode) ==
  NewCall(
    DuplicateFrameStateAndRename(e.graph, GetFrameStateInput(e.graph, node),
                                 callee, target, clone_mode),
    node, target, e.effect, control)

\* One round of the cloning loop of TryReuseDispatch, for branch i.
CloneBranch(graph, node, callee, checkpoint, num_calls, i) ==
  LET merge == GetControlInput(graph, callee)
      effect_phi == IF checkpoint # Null
                      THEN GetEffectInput(graph, checkpoint)
                    ELSE GetEffectInput(graph, node)
      target == InputAt(graph, callee, i)
      control == InputAt(graph, merge, i)
      clone_mode == IF i = num_calls - 1 THEN "kChangeInPlace"
                    ELSE "kCloneState"
  IN CloneCall(
       CloneCheckpoint(graph, callee, checkpoint, target,
                       InputAt(graph, effect_phi, i), control, clone_mode),
       node, callee, target, control, clone_mode)

\* The cloning loop of TryReuseDispatch from branch i on; calls holds the
\* calls made so far.
RECURSIVE ReuseCalls(_, _, _, _, _, _, _)
\* The end of round i: graph is the graph after it, whose last node is the
\* call the round made.
ReuseNext(graph, node, callee, checkpoint, num_calls, i, calls) ==
  ReuseCalls(graph, node, callee, checkpoint, num_calls, i + 1,
             Append(calls, Len(graph)))

ReuseCalls(graph, node, callee, checkpoint, num_calls, i, calls) ==
  IF i >= num_calls THEN [graph |-> graph, calls |-> calls]
  ELSE ReuseNext(CloneBranch(graph, node, callee, checkpoint, num_calls, i),
                 node, callee, checkpoint, num_calls, i, calls)

\* The end of TryReuseDispatch: the original nodes are marked dead and the
\* merge is killed.
MarkDead(graph, node, callee, effect_phi, checkpoint, merge, num_calls) ==
  LET g3 == ReplaceInput(
              ReplaceInput(
                ReplaceInput(graph, node, InputCount(graph, node) - 1, Dead),
                callee, num_calls, Dead),
              effect_phi, num_calls, Dead)
  IN Kill(IF checkpoint # Null THEN ReplaceInput(g3, checkpoint, 2, Dead)
          ELSE g3,
          merge)

\* TryReuseDispatch once its checks have passed; r is what ReuseCalls
\* returned.
Reused(r, node, callee, effect_phi, checkpoint, merge, num_calls) ==
  [ok |-> TRUE,
   graph |-> MarkDead(r.graph, node, callee, effect_phi, checkpoint, merge,
                      num_calls),
   calls |-> r.calls]

\* TryReuseDispatch: whether the dispatch was reused, and if so the graph
\* and the specialized calls (which are also the if_successes).
TryReuseDispatch(graph, node, callee, num_calls) ==
  LET merge == GetControlInput(graph, callee)
      fail == [ok |-> FALSE, graph |-> graph, calls |-> <<>>]
      effect0 == GetEffectInput(graph, node)
      checkpoint == IF graph[effect0].op = "Checkpoint" THEN effect0
                    ELSE Null
      effect == IF checkpoint # Null THEN GetEffectInput(graph, checkpoint)
                ELSE effect0
      c == IF checkpoint # Null
             THEN CollectFrameStateUniqueUses(graph, callee,
                    InputAt(graph, checkpoint, 0), <<>>, kMaxUses)
           ELSE [ok |-> TRUE, uses |-> <<>>]
      f == CollectFrameStateUniqueUses(graph, callee,
                                       GetFrameStateInput(graph, node),
                                       c.uses, kMaxUses)
  IN IF GetControlInput(graph, node) # merge THEN fail
     ELSE IF checkpoint # Null /\ GetControlInput(graph, checkpoint) # merge
       THEN fail
     ELSE IF graph[effect].op # "EffectPhi" THEN fail
     ELSE IF GetControlInput(graph, effect) # merge THEN fail
     ELSE IF ~c.ok THEN fail
     ELSE IF ~f.ok THEN fail
     ELSE IF \E edge \in UseEdges(graph, callee) :
               /\ edge # <<node, 0>>
               /\ \A k \in 1..Len(f.uses) : f.uses[k] # edge
       THEN fail
     ELSE Reused(ReuseCalls(graph, node, callee, checkpoint, num_calls, 0,
                            <<>>),
                 node, callee, effect, checkpoint, merge, num_calls)

\* Mutant of NewBranch: the specialized call goes on the false edge.
NewBranchSwapped(graph, callee, target, fallthrough_control) ==
  LET g1 == NewNode(graph, "ReferenceEqual", <<callee, target>>)
      g2 == NewNode(g1, "Branch", <<Len(g1), fallthrough_control>>)
      g3 == NewNode(g2, "IfTrue", <<Len(g2)>>)
      g4 == NewNode(g3, "IfFalse", <<Len(g2)>>)
  IN [graph |-> g4, fallthrough_control |-> Len(g3), if_success |-> Len(g4)]

\* Mutant of NewBranch: the next comparison is not chained on the false
\* edge.
NewBranchUnchained(graph, callee, target, fallthrough_control) ==
  LET g1 == NewNode(graph, "ReferenceEqual", <<callee, target>>)
      g2 == NewNode(g1, "Branch", <<Len(g1), fallthrough_control>>)
      g3 == NewNode(g2, "IfFalse", <<Len(g2)>>)
      g4 == NewNode(g3, "IfTrue", <<Len(g2)>>)
  IN [graph |-> g4, fallthrough_control |-> fallthrough_control,
      if_success |-> Len(g4)]

\* The comparison and branch CreateOrReuseDispatch makes for one target.
NewBranch(graph, callee, target, fallthrough_control) ==
  LET g1 == NewNode(graph, "ReferenceEqual", <<callee, target>>)
      g2 == NewNode(g1, "Branch", <<Len(g1), fallthrough_control>>)
      g3 == NewNode(g2, "IfFalse", <<Len(g2)>>)
      g4 == NewNode(g3, "IfTrue", <<Len(g2)>>)
  IN [graph |-> g4, fallthrough_control |-> Len(g3), if_success |-> Len(g4)]

\* The loop of CreateOrReuseDispatch (no reuse) from branch i on.
RECURSIVE RebuildCalls(_, _, _, _, _, _, _)
RebuildCalls(graph, node, callee, candidate, i, fallthrough_control, calls) ==
  IF i >= candidate.num_functions THEN [graph |-> graph, calls |-> calls]
  ELSE
  LET target == HeapConstant(candidate.functions[i + 1])
      b == IF i # candidate.num_functions - 1
             THEN NewBranch(graph, callee, target, fallthrough_control)
           ELSE [graph |-> graph,
                 fallthrough_control |-> fallthrough_control,
                 if_success |-> fallthrough_control]
      input_count == InputCount(graph, node)
      inputs == [k \in 0..(input_count - 1) |->
                   IF k = 0 THEN target
                   ELSE IF k = input_count - 1 THEN b.if_success
                   ELSE InputAt(graph, node, k)]
      g1 == NewNode(b.graph, graph[node].op,
                    [k \in 1..input_count |-> inputs[k - 1]])
  IN RebuildCalls(g1, node, callee, candidate, i + 1, b.fallthrough_control,
                  Append(calls, Len(g1)))

\* The end of CreateOrReuseDispatch when the dispatch was not reused; r is
\* what RebuildCalls returned.
Rebuilt(r) == [graph |-> r.graph, calls |-> r.calls, reused |-> FALSE]

\* The end of CreateOrReuseDispatch; t is what TryReuseDispatch returned.
Dispatched(t, graph, node, callee, candidate) ==
  IF t.ok THEN [graph |-> t.graph, calls |-> t.calls, reused |-> TRUE]
  ELSE Rebuilt(RebuildCalls(graph, node, callee, candidate, 0,
                            GetControlInput(graph, node), <<>>))

\* CreateOrReuseDispatch: the graph and the specialized calls; on return
\* if_successes[i] is calls[i] with either strategy.
CreateOrReuseDispatch(graph, node, callee, candidate) ==
  Dispatched(TryReuseDispatch(graph, node, callee, candidate.num_functions),
             graph, node, callee, candidate)

\* NodeProperties::IsExceptionalCall: the IfException projection of node,
\* Null if there is none.
IsExceptionalCall(graph, node) ==
  LET found == { n \in 1..Len(graph) :
                   graph[n].op = "IfException"
                   /\ GetControlInput(graph, n) = node }
  IN IF found = {} THEN Null ELSE CHOOSE n \in found : TRUE

\* The loop that makes the IfSuccess and IfException projections of the
\* specialized calls, from branch i on.
RECURSIVE NewProjections(_, _, _, _, _)
NewProjections(graph, calls, i, if_successes, if_exceptions) ==
  IF i >= Len(calls)
    THEN [graph |-> graph, if_successes |-> if_successes,
          if_exceptions |-> if_exceptions]
  ELSE LET g1 == NewNode(graph, "IfSuccess", <<calls[i + 1]>>)
           g2 == NewNode(g1, "IfException", <<calls[i + 1], calls[i + 1]>>)
       IN NewProjections(g2, calls, i + 1, Append(if_successes, Len(g1)),
                         Append(if_exceptions, Len(g2)))

\* A ReplaceWithValue(node, value, effect, control) handed to the graph
\* editor.
Replacement(node, value, effect, control) ==
  [node |-> node, value |-> value, effect |-> effect, control |-> control]

\* Merge, EffectPhi and Phi over the controls and the values given.
NewJoin(graph, controls, values) ==
  LET g1 == NewNode(graph, "Merge", controls)
      g2 == NewNode(g1, "EffectPhi", Append(values, Len(g1)))
      g3 == NewNode(g2, "Phi", Append(values, Len(g1)))
  IN [graph |-> g3, control |-> Len(g1), effect |-> Len(g2),
      value |-> Len(g3)]

\* The exception join of InlineCandidate: the graph, the if_successes and
\* the replacements handed to the editor.
ExceptionJoin(graph, node, calls) ==
  LET if_exception == IsExceptionalCall(graph, node)
  IN IF if_exception = Null
       THEN [graph |-> graph, if_successes |-> calls, replaced |-> <<>>]
     ELSE LET p == NewProjections(graph, calls, 0, <<>>, <<>>)
              j == NewJoin(p.graph, p.if_exceptions, p.if_exceptions)
          IN [graph |-> j.graph, if_successes |-> p.if_successes,
              replaced |-> <<Replacement(if_exception, j.value, j.effect,
                                         j.control)>>]

\* The main join of InlineCandidate.
MainJoin(graph, node, calls, if_successes) ==
  LET j == NewJoin(graph, if_successes, calls)
  IN [graph |-> j.graph,
      replaced |-> <<Replacement(node, j.value, j.effect, j.control)>>]

\* node->Kill() on the specialized calls the inliner changed.
KillInlined(graph, calls, inl) ==
  [n \in 1..Len(graph) |->
     IF \E k \in 1..Len(inl) : inl[k].changed /\ calls[inl[k].idx] = n
       THEN [graph[n] EXCEPT !.in = [k \in DOMAIN @ |-> Null]]
     ELSE graph[n]]

\* ----------------------------------------------------------- call sites
\* The locals of a frame state: slots that hold the callee or another
\* value, then possibly a nested StateValues node that holds the callee;
\* and one with more callee slots than fit the uses buffer.
LocalsShapes ==
  [slots : SeqsOfLen({"callee", "other"}, MaxSlots), nested : BOOLEAN]
  \cup { [slots |-> [k \in 1..(kMaxUses + 1) |-> "callee"],
          nested |-> FALSE] }

\* A frame state with the locals given; stack says what the stack slot
\* holds.
NewSnapshot(graph, callee, stack, locals) ==
  LET g1 == IF locals.nested THEN NewNode(graph, "StateValues", <<callee>>)
            ELSE graph
      nested == IF locals.nested THEN Len(g1) ELSE Null
      g2 == NewNode(g1, "StateValues",
              [k \in 1..Len(locals.slots) |->
                 IF locals.slots[k] = "callee" THEN callee ELSE Other]
                \o (IF locals.nested THEN <<nested>> ELSE <<>>))
      g3 == NewNode(g2, "FrameState",
              <<Other, Len(g2), IF stack = "callee" THEN callee ELSE Other>>)
  IN [graph |-> g3, frame_state |-> Len(g3), locals |-> Len(g2),
      nested |-> nested]

\* Other consumers of a snapshot: another checkpoint on the frame state,
\* another frame state on the locals, another StateValues on the nested
\* node.
NewSharers(graph, snapshot, sharers) ==
  LET g1 == IF "frame" \in sharers
              THEN NewNode(graph, "Checkpoint",
                           <<snapshot.frame_state, Start, Start>>)
            ELSE graph
      g2 == IF "locals" \in sharers
              THEN NewNode(g1, "FrameState",
                           <<Other, snapshot.locals, Other>>)
            ELSE g1
      g3 == IF "nested" \in sharers /\ snapshot.nested # Null
              THEN NewNode(g2, "StateValues", <<snapshot.nested>>)
            ELSE g2
  IN g3

\* What lies between the callee phi's merge and the call: the call's
\* control is the merge or a control node after it; the call's effect is
\* reached through no checkpoint, through one with a frame state of its
\* own, through one on the call's frame state, or through one governed by
\* another control node; below it is the merge's effect phi, another
\* effect node, or the effect phi of an earlier merge.
Regions ==
  { r \in [control : {"merge", "between"},
           checkpoint : {"none", "own", "sameState", "elsewhere"},
           effect : {"phi", "store", "earlierPhi"}] :
      /\ r.control = "between" => r.checkpoint = "none" /\ r.effect = "phi"
      /\ r.effect # "phi" => r.checkpoint \in {"none", "own"} }

\* The targets of a polymorphic call site, in the order of the phi inputs.
TargetLists ==
  { <<fSmall, fTen>>, <<fTen, fTen>>, <<fSmall, fTen, fForceBuiltin>>,
    <<fSmall, fTen, fSmall>> }

CallShapes ==
  [targets : TargetLists, region : Regions, stack : {"callee", "other"},
   locals : LocalsShapes, sharers : {{}, {"locals"}},
   argument : {"callee", "other"}, exceptional : BOOLEAN]

\* The callee phi over the heap constants of the targets, its merge and
\* effect phi, and the nodes a region can put between them and the call: a
\* control node after the merge, the effect phi of an earlier merge, and
\* an effect node after the effect phi.
DispatchHead(targets) ==
  LET num == Len(targets)
      preds == [j \in 1..Len(targets) |-> Len(BaseGraph) + j]
      merge == Len(BaseGraph) + Len(targets) + 1
  IN [graph |-> BaseGraph
                \o [j \in 1..num |-> GNode("Pred", <<Start>>, 0)]
                \o << GNode("Merge", preds, 0),
                      GNode("Phi",
                            [j \in 1..num |-> HeapConstant(targets[j])]
                              \o <<merge>>, 0),
                      GNode("EffectPhi", preds \o <<merge>>, 0),
                      GNode("Control", <<merge>>, 0),
                      GNode("Merge", <<Start, Start>>, 0),
                      GNode("EffectPhi", <<Start, Start, merge + 4>>, 0),
                      GNode("Store", <<merge + 2, merge>>, 0) >>,
      preds |-> preds, merge |-> merge, callee |-> merge + 1,
      effect_phi |-> merge + 2, between |-> merge + 3,
      earlier_phi |-> merge + 5, store |-> merge + 6,
      frame_state |-> Null, checkpoint_state |-> Null, effect |-> Null,
      node |-> Null, if_exception |-> Null]

\* The call's frame state s and its other consumers are added to h.
FrameStateOn(h, s, sharers) ==
  [h EXCEPT !.graph = NewSharers(s.graph, s, sharers),
            !.frame_state = s.frame_state,
            !.checkpoint_state = s.frame_state]

\* A frame state own of the checkpoint's own is added to h.
OwnStateOn(h, own) ==
  [h EXCEPT !.graph = own.graph, !.checkpoint_state = own.frame_state]

\* The checkpoint of the region, if any, is added to h.
CheckpointOn(h, region) ==
  LET below == IF region.effect = "phi" THEN h.effect_phi
               ELSE IF region.effect = "store" THEN h.store
               ELSE h.earlier_phi
  IN IF region.checkpoint = "none" THEN [h EXCEPT !.effect = below]
     ELSE [h EXCEPT !.graph = NewNode(h.graph, "Checkpoint",
                                <<h.checkpoint_state, below,
                                  IF region.checkpoint = "elsewhere"
                                    THEN h.between
                                  ELSE h.merge>>),
                    !.effect = Len(h.graph) + 1]

\* The call, and its exception projection if it has one, are added to h.
CallOn(h, shape) ==
  LET call == GNode("JSCall",
                    <<h.callee,
                      IF shape.argument = "callee" THEN h.callee ELSE Other,
                      h.frame_state, h.effect,
                      IF shape.region.control = "merge" THEN h.merge
                      ELSE h.between>>, 0)
      node == Len(h.graph) + 1
  IN IF shape.exceptional
       THEN [h EXCEPT !.graph = h.graph \o <<call, GNode("IfException",
                                                        <<node, node>>, 0)>>,
                      !.node = node, !.if_exception = node + 1]
     ELSE [h EXCEPT !.graph = Append(h.graph, call), !.node = node]

\* The snapshots of the call site are added to h: the call's frame state,
\* and the checkpoint's own if the region says so.
SnapshotsOn(h, shape) ==
  IF shape.region.checkpoint = "own"
    THEN OwnStateOn(h, NewSnapshot(h.graph, h.callee, shape.stack,
                                   shape.locals))
  ELSE h

\* The graph around a call whose callee is a phi of heap constants; h is
\* the dispatch head.
CallAround(h, shape) ==
  CallOn(
    CheckpointOn(
      SnapshotsOn(
        FrameStateOn(h, NewSnapshot(h.graph, h.callee, shape.stack,
                                    shape.locals),
                     shape.sharers),
        shape),
      shape.region),
    shape)

\* The state InlineCandidate starts from; h is the call site.
CallSiteOf(h, targets) ==
  [phase |-> "input", graph |-> h.graph, node |-> h.node,
   callee |-> h.callee, preds |-> h.preds, functions |-> targets,
   size |-> Len(h.graph), before |-> h.graph, made |-> h.graph,
   calls |-> <<>>,
   reused |-> FALSE, replaced |-> <<>>, if_exception |-> h.if_exception]

CallSite(shape) ==
  CallSiteOf(CallAround(DispatchHead(shape.targets), shape), shape.targets)

\* How InlineCandidate is called and what the inliner answers: forced and
\* Changed for every specialized call, or not forced and Changed for none,
\* for the first, or for all.
Handovers(num) ==
  { [force_inline |-> TRUE, ok |-> 1..num],
    [force_inline |-> FALSE, ok |-> {}],
    [force_inline |-> FALSE, ok |-> {1}],
    [force_inline |-> FALSE, ok |-> 1..num] }

\* The counter when InlineCandidate is called: nothing inlined so far, or
\* five bytes short of the cumulative cap.
StartCounts == {0, FLAG_max_inlined_bytecode_size_cumulative - 5}

GInit ==
  /\ mode = "kGeneralInlining"
  /\ polymorphic = TRUE
  /\ seen = {}
  /\ candidates = <<>>
  /\ cumulative_count \in StartCounts
  /\ lastOp = NoOp
  /\ cmp = CmpIdle
  /\ \E shape \in CallShapes : g = CallSite(shape)

\* InlineCandidate on a candidate with several targets: the dispatch, the
\* joins, and the per-branch hand-over to the inliner.
InlinePolymorphic ==
  /\ g.phase = "input"
  /\ \E h \in Handovers(Len(g.functions)) :
     \E candidate \in {MakeCandidate(g.node, g.functions, Unknown)} :
     \E d \in {CreateOrReuseDispatch(g.graph, candidate.node,
                 GetValueInput(g.graph, candidate.node, 0), candidate)} :
     \E e \in {ExceptionJoin(d.graph, candidate.node, d.calls)} :
     \E m \in {MainJoin(e.graph, candidate.node, d.calls, e.if_successes)} :
     \E r \in {InlineCandidate(candidate, h.force_inline, h.ok,
                               cumulative_count)} :
       /\ g' = [g EXCEPT !.phase = "inlined",
                         !.graph = KillInlined(m.graph, d.calls, r.inl),
                         !.made = m.graph,
                         !.calls = d.calls,
                         !.reused = d.reused,
                         !.replaced = e.replaced \o m.replaced]
       /\ cumulative_count' = r.count
       /\ lastOp' = Op("InlineCandidate", candidate.node,
                       IF h.force_inline THEN "forced" ELSE "budgeted",
                       cumulative_count, r.inl, <<>>, r.changed,
                       Len(g.functions), g.functions, Unknown, FALSE)
  /\ UNCHANGED <<mode, polymorphic, seen, candidates, cmp>>

GNext == InlinePolymorphic

GSpec == GInit /\ [][GNext]_vars

\* ------------------------------------------------------- snapshot trees
StateCloneModes == {"kChangeInPlace", "kCloneState"}

SnapshotShapes ==
  [stack : {"callee", "other"}, locals : LocalsShapes,
   sharers : SUBSET {"frame", "locals", "nested"}]

\* The state a duplication starts from: s is the snapshot, owned by one
\* call and with the other consumers given; from is the phi to rename, to
\* a heap constant.
SnapshotOf(s, from, sharers) ==
  [phase |-> "input",
   graph |-> NewSharers(NewNode(s.graph, "JSCall",
                          <<from, Other, s.frame_state, Start, Start>>),
                        s, sharers),
   frame_state |-> s.frame_state, locals |-> s.locals, from |-> from,
   to |-> HeapConstant(fSmall),
   before |-> NewSharers(NewNode(s.graph, "JSCall",
                           <<from, Other, s.frame_state, Start, Start>>),
                         s, sharers),
   mode |-> "none", root |-> Null, result |-> Null]

\* A frame state below a phi of two heap constants.
Snapshot(shape) ==
  SnapshotOf(NewSnapshot(NewNode(BaseGraph, "Phi",
                           <<HeapConstant(fSmall), HeapConstant(fTen),
                             Start>>),
                         Len(BaseGraph) + 1, shape.stack, shape.locals),
             Len(BaseGraph) + 1, shape.sharers)

DInit ==
  /\ mode = "kGeneralInlining"
  /\ polymorphic = TRUE
  /\ seen = {}
  /\ candidates = <<>>
  /\ cumulative_count = 0
  /\ lastOp = NoOp
  /\ cmp = CmpIdle
  /\ \E shape \in SnapshotShapes : g = Snapshot(shape)

\* DuplicateFrameStateAndRename applied to the frame state.
DuplicateFrameState ==
  /\ g.phase = "input"
  /\ \E m \in StateCloneModes :
       LET r == DuplicateFrameStateAndRename(g.graph, g.frame_state, g.from,
                                             g.to, m)
       IN g' = [g EXCEPT !.phase = "duplicated", !.graph = r.graph,
                         !.mode = m, !.root = g.frame_state,
                         !.result = r.node]
  /\ UNCHANGED <<mode, polymorphic, seen, candidates, cumulative_count,
                 lastOp, cmp>>

\* DuplicateStateValuesAndRename applied to the locals.
DuplicateStateValues ==
  /\ g.phase = "input"
  /\ \E m \in StateCloneModes :
       LET r == DuplicateStateValuesAndRename(g.graph, g.locals, g.from,
                                              g.to, m)
       IN g' = [g EXCEPT !.phase = "duplicated", !.graph = r.graph,
                         !.mode = m, !.root = g.locals, !.result = r.node]
  /\ UNCHANGED <<mode, polymorphic, seen, candidates, cumulative_count,
                 lastOp, cmp>>

DNext == DuplicateFrameState \/ DuplicateStateValues

DSpec == DInit /\ [][DNext]_vars

\* ======================================================================
\* Properties of snapshot duplication (specification DSpec)
\* ======================================================================

IsSnapshotNode(graph, n) == graph[n].op \in {"FrameState", "StateValues"}

\* The snapshot tree a consumer observes below node n.
RECURSIVE Tree(_, _)
Tree(graph, n) ==
  IF n # Null /\ IsSnapshotNode(graph, n)
    THEN [op |-> graph[n].op,
          in |-> [k \in 1..Len(graph[n].in) |-> Tree(graph, graph[n].in[k])]]
  ELSE [op |-> "value", in |-> <<n>>]

\* C7: a duplication leaves every node that existed before it in place;
\* it does not change the inputs of a frame-state or state-values node
\* whose use count was greater than one, whatever the mode, and the
\* snapshot tree below such a node is the same before and after; in mode
\* kCloneState it changes no node that existed before the call.
C7_NoLeakToSharers ==
  g.phase = "duplicated" =>
    /\ Len(g.graph) >= Len(g.before)
    /\ \A n \in 1..Len(g.before) :
         (IsSnapshotNode(g.before, n) /\ UseCount(g.before, n) > 1)
           => /\ g.graph[n] = g.before[n]
              /\ Tree(g.graph, n) = Tree(g.before, n)
    /\ g.mode = "kCloneState" =>
         \A n \in 1..Len(g.before) : g.graph[n] = g.before[n]

\* Witness of C7: an in-place duplication renamed the stack slot of an
\* owned frame state whose locals, shared with another frame state, hold
\* the renamed value and kept it.
C7_Witness ==
  /\ g.phase = "duplicated"
  /\ g.mode = "kChangeInPlace"
  /\ g.root = g.frame_state
  /\ UseCount(g.before, g.frame_state) = 1
  /\ InputAt(g.before, g.frame_state, kFrameStateStackInput) = g.from
  /\ InputAt(g.graph, g.frame_state, kFrameStateStackInput) = g.to
  /\ UseCount(g.before, g.locals) > 1
  /\ \E i \in 0..(InputCount(g.graph, g.locals) - 1) :
       InputAt(g.graph, g.locals, i) = g.from

\* ======================================================================
\* Properties of the polymorphic dispatch (specification GSpec)
\* ======================================================================

\* The function (its position in HeapConstantFns) a value node denotes
\* when the callee phi's merge was entered through its p-th input.
RECURSIVE RuntimeFunction(_, _, _)
RuntimeFunction(graph, n, p) ==
  IF graph[n].op = "Phi"
    THEN RuntimeFunction(graph, InputAt(graph, n, p - 1), p)
  ELSE graph[n].fn

\* Control reaches node n when the callee phi's merge was entered through
\* its p-th input.
RECURSIVE Reached(_, _, _, _)
Reached(graph, n, p, preds) ==
  IF n = Null THEN FALSE
  ELSE LET op == graph[n].op
           in == graph[n].in
           Equal(check) == RuntimeFunction(graph, graph[check].in[1], p)
                             = RuntimeFunction(graph, graph[check].in[2], p)
       IN CASE op = "Pred" -> n = preds[p]
            [] op = "Merge" ->
                 \E k \in 1..Len(in) : Reached(graph, in[k], p, preds)
            [] op \in {"Control", "IfSuccess"} ->
                 Reached(graph, in[1], p, preds)
            [] op = "Branch" -> Reached(graph, in[2], p, preds)
            [] op = "IfTrue" ->
                 Reached(graph, in[1], p, preds)
                   /\ Equal(graph[in[1]].in[1])
            [] op = "IfFalse" ->
                 Reached(graph, in[1], p, preds)
                   /\ ~Equal(graph[in[1]].in[1])
            [] op = "JSCall" -> Reached(graph, in[Len(in)], p, preds)
            [] OTHER -> FALSE

\* The specialized calls control reaches on path p, as InlineCandidate
\* made them (before the inliner is handed any of them).
Executed(p) ==
  {i \in 1..Len(g.calls) : Reached(g.made, g.calls[i], p, g.preds)}

\* InlineCandidate made exactly one new call per target, call i with
\* target i as its callee.
SpecializedCalls ==
  LET num == Len(g.functions)
  IN /\ Len(g.calls) = num
     /\ \A i, j \in 1..num : g.calls[i] = g.calls[j] => i = j
     /\ {n \in (g.size + 1)..Len(g.made) : g.made[n].op = "JSCall"}
          = {g.calls[i] : i \in 1..num}
     /\ \A i \in 1..num :
          GetValueInput(g.made, g.calls[i], 0) = HeapConstant(g.functions[i])

\* r replaces its node by a Phi and an EffectPhi over values, governed by
\* a Merge whose i-th input is a node with operator op on values[i] (or
\* values[i] itself).
JoinsOver(r, values, op) ==
  /\ g.made[r.control].op = "Merge"
  /\ Len(g.made[r.control].in) = Len(values)
  /\ \A i \in 1..Len(values) :
       LET c == g.made[r.control].in[i]
       IN \/ c = values[i]
          \/ g.made[c].op = op /\ GetControlInput(g.made, c) = g.calls[i]
  /\ g.made[r.effect] = GNode("EffectPhi", Append(values, r.control), 0)
  /\ g.made[r.value] = GNode("Phi", Append(values, r.control), 0)

\* The uses of the original call go to one join over the specialized
\* calls; the uses of its exception projection, if it has one, to one join
\* over the exception projections of the specialized calls.
Rejoined ==
  LET main == g.replaced[Len(g.replaced)]
  IN /\ main.node = g.node
     /\ JoinsOver(main, g.calls, "IfSuccess")
     /\ IF g.if_exception = Null THEN Len(g.replaced) = 1
        ELSE /\ Len(g.replaced) = 2
             /\ g.replaced[1].node = g.if_exception
             /\ LET ec == g.replaced[1].control
                    projections == g.made[ec].in
                IN /\ g.made[ec].op = "Merge"
                   /\ Len(projections) = Len(g.calls)
                   /\ \A i \in 1..Len(g.calls) :
                        g.made[projections[i]]
                          = GNode("IfException", <<g.calls[i], g.calls[i]>>,
                                  0)
                   /\ JoinsOver(g.replaced[1], projections, "IfException")
                   /\ \A i \in 1..Len(g.calls) :
                        g.made[g.made[main.control].in[i]].op = "IfSuccess"

\* C8 as stated: N specialized calls, call i with target i and reached
\* exactly when the callee is target i at run time, joined as described.
C8_Original ==
  g.phase = "inlined" =>
    /\ SpecializedCalls
    /\ \A p, i \in 1..Len(g.functions) :
         (i \in Executed(p)) <=> (g.functions[i] = g.functions[p])
    /\ Rejoined

\* C8 (amended): N specialized calls, call i with target i; on every path
\* into the callee phi's merge control reaches exactly one of them, and
\* its target is the callee at run time; the uses of the original call and
\* of its exception projection are joined as described.
C8_DispatchEquivalence ==
  g.phase = "inlined" =>
    /\ SpecializedCalls
    /\ \A p \in 1..Len(g.functions) :
         /\ Cardinality(Executed(p)) = 1
         /\ \A i \in Executed(p) : g.functions[i] = g.functions[p]
    /\ Rejoined

\* Witness of C8: the dispatch of a call with an exception projection and
\* targets F, G, F was reused, and the inliner changed the first call.
C8_Witness ==
  /\ g.phase = "inlined"
  /\ g.reused
  /\ g.if_exception # Null
  /\ g.functions = <<fSmall, fTen, fSmall>>
  /\ \E k \in 1..Len(lastOp.inl) : lastOp.inl[k].changed

\* ======================================================================
\* Properties of the mode dispatch and of the discards (specification Spec)
\* ======================================================================

\* Every target of the Reduce is flagged force-inline.
AllForced(op) == \A i \in 1..Len(op.functions) : op.functions[i].force_inline

\* The call site of a Reduce got as far as the mode dispatch: it has
\* targets (several only with polymorphic inlining enabled), not all of
\* them force-inline, one of them inlinable, and it is within the depth
\* limit.
ReachesModeDispatch(op) ==
  /\ op.kind = "Reduce"
  /\ op.functions # <<>>
  /\ (Len(op.functions) = 1 \/ polymorphic)
  /\ ~AllForced(op)
  /\ \E i \in 1..Len(op.functions) : TargetInlinable(op.functions[i])
  /\ ~op.too_deep

\* The call site of a Reduce in general mode passed the frequency check
\* and all its targets are small.
SmallCallSite(op) ==
  /\ ReachesModeDispatch(op)
  /\ mode = "kGeneralInlining"
  /\ (~op.frequency.known
        \/ op.frequency.value >= FLAG_min_inlining_frequency)
  /\ \A i \in 1..Len(op.functions) : TargetSmall(op.functions[i])

\* The Reduce handed the call of every target to the inliner, the counter
\* moved by the sizes of those inlined, and the call site is not in the
\* backlog.
InlinedEveryTarget(op) ==
  /\ {op.inl[k].idx : k \in 1..Len(op.inl)} = 1..Len(op.functions)
  /\ \A k \in 1..Len(op.inl) : op.inl[k].node = op.node
  /\ cumulative_count = op.before + SumChanged(op.inl)
  /\ op.node \notin NodesOf(candidates)

\* C11 as stated: a call site that passed the frequency check with all
\* targets small is inlined by its Reduce when the counter is strictly
\* below the absolute cap, and enqueued otherwise.
C11_Original ==
  SmallCallSite(lastOp) =>
    IF lastOp.before < FLAG_max_inlined_bytecode_size_absolute
      THEN InlinedEveryTarget(lastOp)
    ELSE Enqueued(lastOp)

\* C11 (amended): a call site that passed the frequency check with all
\* targets small is inlined by its Reduce when the counter is at most the
\* absolute cap, and enqueued when the counter is above it.
C11_SmallUnderAbsoluteCap ==
  SmallCallSite(lastOp) =>
    IF lastOp.before <= FLAG_max_inlined_bytecode_size_absolute
      THEN InlinedEveryTarget(lastOp)
    ELSE Enqueued(lastOp)

\* Witness of C11: with the counter exactly at the absolute cap a call
\* site with one small target was inlined by its Reduce.
C11_Witness ==
  /\ SmallCallSite(lastOp)
  /\ lastOp.before = FLAG_max_inlined_bytecode_size_absolute
  /\ Len(lastOp.functions) = 1
  /\ InlinedEveryTarget(lastOp)
  /\ lastOp.inl[1].changed

\* C12: a candidate whose node is dead when Finalize removes it is not
\* handed to InlineCandidate (no inliner invocation, no dispatch built);
\* it is out of the backlog, the counter is the same when the next
\* candidate is looked at, and the same Finalize goes on to the next
\* candidate (it ends there only if the backlog is exhausted).
C12_DeadSkipped ==
  lastOp.kind = "Finalize" =>
    LET r == lastOp.removed
    IN \A k \in 1..Len(r) :
         r[k].dead =>
           /\ r[k].disp = "dead"
           /\ InlFor(lastOp.inl, r[k].node) = {}
           /\ r[k].node \notin NodesOf(candidates)
           /\ IF k < Len(r) THEN r[k + 1].count = r[k].count
              ELSE /\ candidates = <<>>
                   /\ cumulative_count = r[k].count
                   /\ ~lastOp.changed

\* Witness of C12: a Finalize skipped a dead candidate and inlined the
\* next one.
C12_Witness ==
  /\ lastOp.kind = "Finalize"
  /\ Len(lastOp.removed) = 2
  /\ lastOp.removed[1].dead
  /\ lastOp.removed[2].disp = "changed"
  /\ cumulative_count > lastOp.before

\* The Reduce discards its call site: no target, several targets with
\* polymorphic inlining disabled, or, the targets not all force-inline, no
\* inlinable target, a depth over the maximum, the restricted mode, or in
\* general mode a known frequency below the minimum.
Discarded(op) ==
  /\ op.kind = "Reduce"
  /\ op.path # "notInlinee"
  /\ \/ op.functions = <<>>
     \/ Len(op.functions) > 1 /\ ~polymorphic
     \/ /\ ~AllForced(op)
        /\ \/ ~\E i \in 1..Len(op.functions) :
                 TargetInlinable(op.functions[i])
           \/ op.too_deep
           \/ mode = "kRestrictedInlining"
           \/ /\ mode = "kGeneralInlining"
              /\ op.frequency.known
              /\ op.frequency.value < FLAG_min_inlining_frequency

\* C13: a Reduce that discards its call site reports NoChange, invokes no
\* inliner, builds no dispatch, and leaves the backlog and the counter as
\* they were; the seen-set gains the node and nothing else.
C13_DiscardIsNoOp ==
  [][ Discarded(lastOp') =>
        /\ ~lastOp'.changed
        /\ lastOp'.inl = <<>>
        /\ candidates' = candidates
        /\ cumulative_count' = cumulative_count
        /\ seen' = seen \cup {lastOp'.node}
        /\ UNCHANGED <<mode, polymorphic>> ]_vars

\* Witness of C13: with a candidate waiting, the Reduce of a new call site
\* whose only target is not inlinable.
C13_Witness ==
  /\ Discarded(lastOp)
  /\ lastOp.functions = <<fBuiltin>>
  /\ lastOp.node \in seen
  /\ candidates # <<>>

\* The inliner was invoked for the call of target i.
HandedOver(op, i) == \E k \in 1..Len(op.inl) : op.inl[k].idx = i

\* The counter when the call of target i came up: the counter before the
\* operation plus the sizes of the earlier calls the inliner inlined.
CountAt(op, i) ==
  LET Earlier(e) == e.idx < i
  IN op.before + SumChanged(SelectSeq(op.inl, Earlier))

\* C18: a Reduce of a call site whose targets are all force-inline (with
\* polymorphic inlining enabled if there are several) hands the call of
\* every target to the inliner in that Reduce and leaves the call site out
\* of the backlog, whatever the mode, the targets' eligibility, the depth,
\* the frequency and the counter.
C18_ForcedInlinedAtOnce ==
  (/\ lastOp.kind = "Reduce"
   /\ lastOp.functions # <<>>
   /\ AllForced(lastOp)
   /\ (Len(lastOp.functions) = 1 \/ polymorphic))
  => /\ InlinedEveryTarget(lastOp)
     /\ Len(lastOp.inl) = Len(lastOp.functions)
     /\ Len(lastOp.functions) > 1 => lastOp.changed

\* Witness of C18: in stress mode, with the counter over the cumulative
\* cap, a call site with two force-inline targets, one of them a built-in,
\* had both calls handed to the inliner.
C18_Witness ==
  /\ lastOp.kind = "Reduce"
  /\ mode = "kStressInlining"
  /\ lastOp.before >= FLAG_max_inlined_bytecode_size_cumulative
  /\ lastOp.functions = <<fForce, fForceBuiltin>>
  /\ HandedOver(lastOp, 1)
  /\ HandedOver(lastOp, 2)

\* C19 as stated: in stress mode a call site that reaches the mode
\* dispatch is out of the backlog and the inliner is invoked for the call
\* of every inlinable target, whatever the counter.
C19_Original ==
  (ReachesModeDispatch(lastOp) /\ mode = "kStressInlining")
  => /\ lastOp.node \notin NodesOf(candidates)
     /\ \A i \in 1..Len(lastOp.functions) :
          TargetInlinable(lastOp.functions[i]) => HandedOver(lastOp, i)

\* C19 (amended): in stress mode a call site that reaches the mode
\* dispatch is out of the backlog and InlineCandidate runs on it in that
\* Reduce: with one target the inliner is invoked for the call; with
\* several the dispatch is built and the inliner is invoked for the call of
\* target i exactly when target i is inlinable and the counter, with the
\* sizes of the earlier calls inlined, is below the cumulative cap.
C19_StressInlinedAtOnce ==
  (ReachesModeDispatch(lastOp) /\ mode = "kStressInlining")
  => /\ lastOp.node \notin NodesOf(candidates)
     /\ cumulative_count = lastOp.before + SumChanged(lastOp.inl)
     /\ IF Len(lastOp.functions) = 1 THEN HandedOver(lastOp, 1)
        ELSE /\ lastOp.changed
             /\ \A i \in 1..Len(lastOp.functions) :
                  HandedOver(lastOp, i)
                    <=> /\ TargetInlinable(lastOp.functions[i])
                        /\ CountAt(lastOp, i)
                             < FLAG_max_inlined_bytecode_size_cumulative

\* Witness of C19: in stress mode, with the counter over the cumulative
\* cap, the dispatch of a call site with two inlinable targets was built
\* and neither call was handed to the inliner.
C19_Witness ==
  /\ ReachesModeDispatch(lastOp)
  /\ mode = "kStressInlining"
  /\ lastOp.before >= FLAG_max_inlined_bytecode_size_cumulative
  /\ lastOp.functions = <<fTen, fTen>>
  /\ lastOp.changed
  /\ lastOp.inl = <<>>
  /\ lastOp.node \notin NodesOf(candidates)

\* ======================================================================
\* Properties of the per-branch hand-over (specification GSpec)
\* ======================================================================

\* The inliner inlined the call of target i.
Inlined(op, i) ==
  \E k \in 1..Len(op.inl) : op.inl[k].idx = i /\ op.inl[k].changed

\* Node n is a live call: it has its inputs.
LiveCall(graph, n) ==
  /\ graph[n].op = "JSCall"
  /\ \A k \in 1..Len(graph[n].in) : graph[n].in[k] # Null

\* Node n is a killed call: its inputs are cleared.
KilledCall(graph, n) ==
  /\ graph[n].op = "JSCall"
  /\ \A k \in 1..Len(graph[n].in) : graph[n].in[k] = Null

\* C17: when InlineCandidate runs without force on a candidate with several
\* targets, the call of target i is handed to the inliner exactly when the
\* target is inlinable and the counter, with the sizes of the earlier calls
\* inlined, is below the cumulative cap; a call that was inlined is killed
\* and adds its size to the counter, any other call stays in the graph as
\* it was made, live, and adds nothing.
C17_PerBranchBudget ==
  (g.phase = "inlined" /\ lastOp.path = "budgeted") =>
    /\ \A i \in 1..Len(g.functions) :
         /\ HandedOver(lastOp, i)
              <=> /\ TargetInlinable(g.functions[i])
                  /\ CountAt(lastOp, i)
                       < FLAG_max_inlined_bytecode_size_cumulative
         /\ IF Inlined(lastOp, i) THEN KilledCall(g.graph, g.calls[i])
            ELSE /\ LiveCall(g.graph, g.calls[i])
                 /\ g.graph[g.calls[i]] = g.made[g.calls[i]]
    /\ cumulative_count
         = lastOp.before
           + SumSeq([i \in 1..Len(g.functions) |->
                       IF Inlined(lastOp, i) THEN g.functions[i].length
                       ELSE 0])

\* Witness of C17: starting five bytes under the cap, the calls of a
\* 3-byte and of a 10-byte target were inlined and killed, and the call of
\* the third target, inlinable, was not handed over and is live.
C17_Witness ==
  /\ g.phase = "inlined"
  /\ lastOp.path = "budgeted"
  /\ g.functions = <<fSmall, fTen, fSmall>>
  /\ lastOp.before = FLAG_max_inlined_bytecode_size_cumulative - 5
  /\ KilledCall(g.graph, g.calls[1])
  /\ KilledCall(g.graph, g.calls[2])
  /\ ~HandedOver(lastOp, 3)
  /\ LiveCall(g.graph, g.calls[3])
  /\ cumulative_count = lastOp.before + 13

\* ======================================================================
\* Properties of the rebuilt dispatch (specification GSpec)
\* ======================================================================

\* The nodes InlineCandidate made with operator op.
MadeWith(op) == {n \in (g.size + 1)..Len(g.made) : g.made[n].op = op}

\* The branch whose projection is the control input of specialized call i.
BranchOfCall(i) == g.made[GetControlInput(g.made, g.calls[i])].in[1]

\* C15: a rebuilt dispatch for N targets has N - 1 comparisons and N - 1
\* branches; branch i compares the callee with the constant of target i
\* and hangs on the original call's control (i = 1) or on the false edge of
\* branch i - 1; call i < N has the true edge of branch i as control, call
\* N the false edge of branch N - 1; every specialized call has the
\* operator and the inputs of the original call but for input 0, the
\* constant of its target, and the control input; the original call keeps
\* its inputs.
C15_RebuiltDispatch ==
  (g.phase = "inlined" /\ ~g.reused) =>
    LET num == Len(g.functions)
        original == g.before[g.node]
    IN /\ Cardinality(MadeWith("ReferenceEqual")) = num - 1
       /\ Cardinality(MadeWith("Branch")) = num - 1
       /\ Cardinality(MadeWith("IfTrue")) = num - 1
       /\ Cardinality(MadeWith("IfFalse")) = num - 1
       /\ g.made[g.node] = original
       /\ \A i \in 1..num :
            LET call == g.made[g.calls[i]]
            IN /\ call.op = original.op
               /\ Len(call.in) = Len(original.in)
               /\ call.in[1] = HeapConstant(g.functions[i])
               /\ \A k \in 2..(Len(call.in) - 1) : call.in[k] = original.in[k]
       /\ \A i \in 1..(num - 1) :
            LET branch == g.made[BranchOfCall(i)]
            IN /\ g.made[GetControlInput(g.made, g.calls[i])].op = "IfTrue"
               /\ branch.op = "Branch"
               /\ g.made[branch.in[1]]
                    = GNode("ReferenceEqual",
                            <<g.callee, HeapConstant(g.functions[i])>>, 0)
               /\ IF i = 1
                    THEN branch.in[2] = original.in[Len(original.in)]
                  ELSE g.made[branch.in[2]]
                         = GNode("IfFalse", <<BranchOfCall(i - 1)>>, 0)
       /\ g.made[GetControlInput(g.made, g.calls[num])]
            = GNode("IfFalse", <<BranchOfCall(num - 1)>>, 0)

\* Witness of C15: the dispatch of a call with three targets, governed by
\* a control node after the callee phi's merge, was rebuilt.
C15_Witness ==
  /\ g.phase = "inlined"
  /\ ~g.reused
  /\ Len(g.functions) = 3
  /\ Cardinality(MadeWith("Branch")) = 2
  /\ g.before[GetControlInput(g.before, g.node)].op = "Control"

\* ======================================================================
\* Properties of the reuse decision (specification GSpec)
\* ======================================================================

\* The checkpoint between the call and the callee phi's merge in the graph
\* InlineCandidate started from, Null if the call's effect input is none.
CheckpointBefore ==
  IF g.before[GetEffectInput(g.before, g.node)].op = "Checkpoint"
    THEN GetEffectInput(g.before, g.node)
  ELSE Null

\* The effect node below the call and its checkpoint.
EffectBelow ==
  IF CheckpointBefore # Null THEN GetEffectInput(g.before, CheckpointBefore)
  ELSE GetEffectInput(g.before, g.node)

\* The callee phi's merge governs the call, its checkpoint if there is
\* one, and the effect phi below them.
DispatchInPlace ==
  LET merge == GetControlInput(g.before, g.callee)
  IN /\ GetControlInput(g.before, g.node) = merge
     /\ CheckpointBefore # Null
          => GetControlInput(g.before, CheckpointBefore) = merge
     /\ g.before[EffectBelow].op = "EffectPhi"
     /\ GetControlInput(g.before, EffectBelow) = merge

\* The uses of value in the StateValues tree below state_values that no
\* other consumer shares.
RECURSIVE OwnedValueUses(_, _, _)
OwnedValueUses(graph, state_values, value) ==
  IF UseCount(graph, state_values) > 1 THEN {}
  ELSE UNION { IF graph[InputAt(graph, state_values, i)].op = "StateValues"
                 THEN OwnedValueUses(graph, InputAt(graph, state_values, i),
                                     value)
               ELSE IF InputAt(graph, state_values, i) = value
                 THEN {<<state_values, i>>}
               ELSE {}
               : i \in 0..(InputCount(graph, state_values) - 1) }

\* The uses of value in the snapshot tree of frame_state that no other
\* consumer shares: the stack slot and the locals.
OwnedSnapshotUses(graph, frame_state, value) ==
  IF UseCount(graph, frame_state) > 1 THEN {}
  ELSE (IF InputAt(graph, frame_state, kFrameStateStackInput) = value
          THEN {<<frame_state, kFrameStateStackInput>>}
        ELSE {})
       \cup OwnedValueUses(graph,
                           InputAt(graph, frame_state, kFrameStateLocalsInput),
                           value)

\* The uses of the callee phi in the snapshot of the checkpoint, and in
\* the lazy-deopt snapshot of the call.
CheckpointUses ==
  IF CheckpointBefore = Null THEN {}
  ELSE OwnedSnapshotUses(g.before, InputAt(g.before, CheckpointBefore, 0),
                         g.callee)

LazyDeoptUses ==
  OwnedSnapshotUses(g.before, GetFrameStateInput(g.before, g.node), g.callee)

\* C16: the dispatch is reused exactly when the callee phi's merge governs
\* the call, its checkpoint and the effect phi, the owned snapshot trees
\* hold at most 8 uses of the callee phi, and every use edge of the callee
\* phi is the call's target operand or one of those uses; otherwise no
\* node that existed before is changed, no snapshot or checkpoint node is
\* made, and the dispatch is rebuilt with a branch for every target but the
\* last.
C16_ReuseOrUntouched ==
  g.phase = "inlined" =>
    /\ g.reused
         <=> /\ DispatchInPlace
             /\ Cardinality(CheckpointUses) + Cardinality(LazyDeoptUses)
                  <= 8
             /\ UseEdges(g.before, g.callee)
                  \subseteq {<<g.node, 0>>} \cup CheckpointUses
                              \cup LazyDeoptUses
    /\ ~g.reused
         => /\ \A n \in 1..g.size : g.made[n] = g.before[n]
            /\ MadeWith("Checkpoint") = {}
            /\ MadeWith("FrameState") = {}
            /\ MadeWith("StateValues") = {}
            /\ Cardinality(MadeWith("Branch")) = Len(g.functions) - 1
            /\ Cardinality(MadeWith("JSCall")) = Len(g.functions)

\* Witness of C16: the merge governs the call and the effect phi and every
\* use of the callee phi is in an owned snapshot tree, but there are nine
\* of them: the dispatch was rebuilt.
C16_Witness ==
  /\ g.phase = "inlined"
  /\ ~g.reused
  /\ DispatchInPlace
  /\ UseEdges(g.before, g.callee)
       \subseteq {<<g.node, 0>>} \cup CheckpointUses \cup LazyDeoptUses
  /\ Cardinality(CheckpointUses) + Cardinality(LazyDeoptUses) = 9
  /\ Cardinality(MadeWith("Branch")) = Len(g.functions) - 1

\* ======================================================================
\* Properties of the reused dispatch (specification GSpec)
\* ======================================================================

\* A snapshot tree with every reference to from replaced by to.
RECURSIVE RenamedTree(_, _, _)
RenamedTree(tree, from, to) ==
  IF tree.op = "value"
    THEN [op |-> "value", in |-> <<IF tree.in[1] = from THEN to
                                   ELSE tree.in[1]>>]
  ELSE [op |-> tree.op,
        in |-> [k \in 1..Len(tree.in) |-> RenamedTree(tree.in[k], from, to)]]

\* The values a snapshot tree references.
RECURSIVE ValuesOf(_)
ValuesOf(tree) ==
  IF tree.op = "value" THEN {tree.in[1]}
  ELSE UNION {ValuesOf(tree.in[k]) : k \in 1..Len(tree.in)}

\* The effect input of specialized call i derives from input i of the
\* effect phi: it is that input, or a new checkpoint on it whose control is
\* input i of the merge.
EffectDerived(i) ==
  LET effect == GetEffectInput(g.made, g.calls[i])
      merge == GetControlInput(g.before, g.callee)
  IN IF CheckpointBefore = Null
       THEN effect = InputAt(g.before, EffectBelow, i - 1)
     ELSE /\ effect > g.size
          /\ g.made[effect].op = "Checkpoint"
          /\ GetEffectInput(g.made, effect)
               = InputAt(g.before, EffectBelow, i - 1)
          /\ GetControlInput(g.made, effect) = InputAt(g.before, merge, i - 1)

\* Specialized call i of a reused dispatch has target, control and effect
\* of merge input i.
SpecializedFor(i) ==
  LET target == InputAt(g.before, g.callee, i - 1)
      merge == GetControlInput(g.before, g.callee)
  IN /\ g.calls[i] > g.size
     /\ InputAt(g.made, g.calls[i], 0) = target
     /\ target = HeapConstant(g.functions[i])
     /\ GetControlInput(g.made, g.calls[i]) = InputAt(g.before, merge, i - 1)
     /\ EffectDerived(i)

\* The snapshot of the checkpoint of specialized call i is the original
\* checkpoint's with the callee phi renamed to target i, and does not
\* reference the callee phi.
CheckpointRenamed(i) ==
  CheckpointBefore # Null =>
    LET state == InputAt(g.made, GetEffectInput(g.made, g.calls[i]), 0)
    IN /\ Tree(g.made, state)
            = RenamedTree(Tree(g.before,
                               InputAt(g.before, CheckpointBefore, 0)),
                          g.callee, InputAt(g.before, g.callee, i - 1))
       /\ g.callee \notin ValuesOf(Tree(g.made, state))

\* The lazy-deopt snapshot of specialized call i is the original call's
\* with the callee phi renamed to target i, and does not reference the
\* callee phi.
SnapshotRenamed(i) ==
  /\ Tree(g.made, GetFrameStateInput(g.made, g.calls[i]))
       = RenamedTree(Tree(g.before, GetFrameStateInput(g.before, g.node)),
                     g.callee, InputAt(g.before, g.callee, i - 1))
  /\ g.callee
       \notin ValuesOf(Tree(g.made, GetFrameStateInput(g.made, g.calls[i])))

\* C14: after a reuse, specialized call i has the target, control and
\* effect of merge input i, and its lazy-deopt snapshot and the snapshot of
\* its checkpoint hold target i wherever the original trees referenced the
\* callee phi, in the stack slot and in the locals; no snapshot of a
\* specialized call references the callee phi.
C14_RenamedEverywhere ==
  (g.phase = "inlined" /\ g.reused) =>
    \A i \in 1..Len(g.functions) :
      SpecializedFor(i) /\ CheckpointRenamed(i) /\ SnapshotRenamed(i)

\* What holds of the code: the part of C14 about target, control and
\* effect, with snapshots whose only use of the callee phi is the stack
\* slot.
C14_StackOnly ==
  (/\ g.phase = "inlined"
   /\ g.reused
   /\ \A use \in CheckpointUses \cup LazyDeoptUses :
        use[2] = kFrameStateStackInput /\ g.before[use[1]].op = "FrameState")
    => \A i \in 1..Len(g.functions) :
         SpecializedFor(i) /\ CheckpointRenamed(i) /\ SnapshotRenamed(i)

\* ======================================================================
\* Draining of the backlog (specification FairSpec)
\* ======================================================================

\* The step is an invocation of Finalize.
FinalizeInvoked == lastOp'.kind = "Finalize" /\ lastOp' # lastOp

\* C20: Finalize has an outcome from every state; an invocation on a
\* non-empty backlog removes at least one candidate and removes every
\* candidate as changed, unchanged, over budget or dead; an invocation on
\* an empty backlog changes neither backlog, counter nor seen-set; under a
\* driver that keeps invoking Finalize every enqueued candidate, whatever
\* its frequency, eventually leaves the backlog, and the backlog is
\* eventually empty for good.
C20_BacklogDrains ==
  /\ [](FinalizeLoop(candidates, cumulative_count, <<>>, <<>>) # {})
  /\ [][(FinalizeInvoked /\ candidates # <<>>)
          => /\ Len(candidates') < Len(candidates)
             /\ Len(lastOp'.removed) = Len(candidates) - Len(candidates')
             /\ \A k \in 1..Len(lastOp'.removed) :
                  /\ lastOp'.removed[k].node = candidates[k].node
                  /\ lastOp'.removed[k].disp
                       \in {"changed", "unchanged", "overBudget", "dead"}]_vars
  /\ [][(lastOp'.kind = "Finalize" /\ candidates = <<>>)
          => /\ candidates' = <<>>
             /\ cumulative_count' = cumulative_count
             /\ seen' = seen
             /\ lastOp'.removed = <<>>
             /\ lastOp'.inl = <<>>]_vars
  /\ \A n \in Nodes :
       (n \in NodesOf(candidates)) ~> (n \notin NodesOf(candidates))
  /\ <>[](candidates = <<>>)

\* Witness of C20: a Finalize has removed a candidate of unknown frequency
\* that an earlier Finalize had left behind, and the backlog is empty.
C20_Witness ==
  /\ lastOp.kind = "Finalize"
  /\ candidates = <<>>
  /\ Len(lastOp.removed) = 1
  /\ ~lastOp.removed[1].frequency.known
  /\ cumulative_count > lastOp.before
  /\ lastOp.before > 0
  /\ Cardinality(seen) = NumNodes

\* ======================================================================
\* The reserve test of Finalize (specification Spec)
\* ======================================================================

\* The counter plus the size scaled by the reserve factor, as a rational
\* number, exceeds the cumulative cap.
ExceedsScaled(count, size) ==
  count * ScaleDen + size * ScaleNum
    > FLAG_max_inlined_bytecode_size_cumulative * ScaleDen

\* The counter plus the size scaled by the reserve factor and truncated to
\* a whole number exceeds the cumulative cap.
ExceedsTruncated(count, size) ==
  count + ReservedCost(size) > FLAG_max_inlined_bytecode_size_cumulative

\* InlineCandidate was called on the removed candidate r.
HandedToInlineCandidate(r) == r.disp \in {"changed", "unchanged"}

\* C21 as stated: a removed candidate is discarded exactly when the
\* counter plus its scaled size, truncated or not, exceeds the cap, and is
\* attempted otherwise unless its node is dead.
C21_Original ==
  lastOp.kind = "Finalize" =>
    \A k \in 1..Len(lastOp.removed) :
      LET r == lastOp.removed[k]
      IN /\ r.disp = "overBudget" <=> ExceedsScaled(r.count, r.total_size)
         /\ ExceedsScaled(r.count, r.total_size) => ~HandedToInlineCandidate(r)

\* C21: a removed candidate is discarded exactly when the counter plus its
\* scaled size truncated to a whole number exceeds the cap; a discarded
\* candidate is not handed to the inliner, and every other candidate whose
\* node is live is attempted.
C21_ReserveTruncated ==
  lastOp.kind = "Finalize" =>
    \A k \in 1..Len(lastOp.removed) :
      LET r == lastOp.removed[k]
      IN /\ r.disp = "overBudget" <=> ExceedsTruncated(r.count, r.total_size)
         /\ r.disp = "overBudget" => InlFor(lastOp.inl, r.node) = {}
         /\ (r.disp # "overBudget" /\ ~r.dead) => HandedToInlineCandidate(r)

\* Witness of C21: with counter 0 and cap 500 a candidate of size 417, whose
\* scaled size 500.4 is above the cap and whose truncated scaled size 500
\* is not, was attempted and inlined.
C21_Witness ==
  /\ lastOp.kind = "Finalize"
  /\ Len(lastOp.removed) = 1
  /\ lastOp.removed[1].total_size = 417
  /\ lastOp.removed[1].count = 0
  /\ ExceedsScaled(0, 417)
  /\ lastOp.removed[1].disp = "changed"
  /\ cumulative_count = 417

\* ======================================================================
\* The cumulative cap across Finalize (specification Spec)
\* ======================================================================

\* C22: with a reserve factor of at least 1, a Finalize invoked with the
\* counter at most the cumulative cap returns with the counter at most the
\* cap, whichever candidates it removes and whichever branches the inliner
\* substitutes; the counter grows by the sizes of the substituted calls.
C22_FinalizeWithinCap ==
  (/\ lastOp.kind = "Finalize"
   /\ ScaleNum >= ScaleDen
   /\ lastOp.before <= FLAG_max_inlined_bytecode_size_cumulative)
    => /\ cumulative_count <= FLAG_max_inlined_bytecode_size_cumulative
       /\ cumulative_count = lastOp.before + SumChanged(lastOp.inl)
       /\ \A k \in 1..Len(lastOp.removed) :
            lastOp.removed[k].count
              <= FLAG_max_inlined_bytecode_size_cumulative

\* Witness of C22: a Finalize invoked with a counter above 0 and below the
\* cap substituted one branch of a two-target candidate and not the
\* other, and raised the counter.
C22_Witness ==
  /\ lastOp.kind = "Finalize"
  /\ lastOp.before > 0
  /\ lastOp.before < FLAG_max_inlined_bytecode_size_cumulative
  /\ \E k \in 1..Len(lastOp.removed) :
       /\ lastOp.removed[k].num_functions = 2
       /\ \E c, d \in InlFor(lastOp.inl, lastOp.removed[k].node) :
            lastOp.inl[c].changed /\ ~lastOp.inl[d].changed
  /\ cumulative_count > lastOp.before
  /\ cumulative_count <= FLAG_max_inlined_bytecode_size_cumulative

\* ======================================================================
\* Targets handed to the inliner (specification Spec)
\* ======================================================================

\* The backlog entry of node n.
CandidateOf(n) ==
  candidates[CHOOSE k \in 1..Len(candidates) : candidates[k].node = n]

\* The target of inliner invocation k of the step: a target of the call
\* site a Reduce looked at, or of the backlog entry a Finalize removed.
TargetHanded(k) ==
  IF lastOp'.kind = "Reduce" THEN lastOp'.functions[lastOp'.inl[k].idx]
  ELSE CandidateOf(lastOp'.inl[k].node).functions[lastOp'.inl[k].idx]

\* The Reduce took the small-function path: general mode, frequency not
\* below the minimum, every target small, and the counter at most the
\* absolute cap.
TookSmallPath(op) ==
  /\ SmallCallSite(op)
  /\ ~AllForced(op)
  /\ op.before <= FLAG_max_inlined_bytecode_size_absolute

\* C23 as stated: the call of a target that is not inlinable is handed to
\* the inliner only by a Reduce of a call site whose targets are all
\* force-inline.
C23_Original ==
  [][\A k \in 1..Len(lastOp'.inl) :
       ~TargetInlinable(TargetHanded(k))
         => (lastOp'.kind = "Reduce" /\ AllForced(lastOp'))]_vars

\* C23: the call of a target that is not inlinable is handed to the
\* inliner only by a Reduce of a call site whose targets are all
\* force-inline, or of a call site with several targets, all small and one
\* of them inlinable, that takes the small-function path; never by
\* Finalize and never in stress mode.
C23_NotInlinableOnlyForced ==
  [][\A k \in 1..Len(lastOp'.inl) :
       ~TargetInlinable(TargetHanded(k))
         => /\ lastOp'.kind = "Reduce"
            /\ mode # "kStressInlining" \/ AllForced(lastOp')
            /\ \/ AllForced(lastOp')
               \/ /\ TookSmallPath(lastOp')
                  /\ Len(lastOp'.functions) > 1
                  /\ TargetSmall(TargetHanded(k))]_vars

\* Witness of C23: a Reduce on the small-function path handed the call of
\* a small built-in target to the inliner, which inlined it, beside an
\* inlinable target that is not force-inline.
C23_Witness ==
  /\ lastOp.kind = "Reduce"
  /\ lastOp.path = "small"
  /\ lastOp.functions = <<fSmall, fForceBuiltin>>
  /\ ~AllForced(lastOp)
  /\ ~TargetInlinable(lastOp.functions[2])
  /\ \E k \in 1..Len(lastOp.inl) :
       lastOp.inl[k].idx = 2 /\ lastOp.inl[k].changed
  /\ cumulative_count = lastOp.before + 6

\* ======================================================================
\* The Reduction InlineCandidate returns (specification Spec)
\* ======================================================================

\* The operation called InlineCandidate from Reduce.
InlinedFromReduce(op) ==
  op.kind = "Reduce" /\ op.path \in {"forced", "stress", "small"}

\* Some inliner invocation of inl for node n answered Changed.
SomeChanged(inl, n) == \E c \in InlFor(inl, n) : inl[c].changed

\* C24: InlineCandidate answers Changed for a candidate with one target
\* exactly when the inliner does, and always for a candidate with several
\* targets, whether or not a specialized call was inlined; a Finalize that
\* finds a candidate with several targets live and within budget removes
\* no candidate after it and leaves the rest of the backlog as it was.
C24_PolymorphicAlwaysChanged ==
  [][LET op == lastOp'
     IN /\ InlinedFromReduce(op)
             => IF Len(op.functions) = 1
                  THEN /\ Len(op.inl) = 1
                       /\ op.changed <=> op.inl[1].changed
                ELSE op.changed
        /\ op.kind = "Finalize"
             => \A k \in 1..Len(op.removed) :
                  LET r == op.removed[k]
                  IN (WithinBudget(r) /\ ~r.dead)
                       => /\ r.num_functions = 1
                               => /\ InlFor(op.inl, r.node) # {}
                                  /\ r.disp = "changed"
                                       <=> SomeChanged(op.inl, r.node)
                          /\ r.num_functions > 1 => r.disp = "changed"
                          /\ r.disp = "changed"
                               => /\ k = Len(op.removed)
                                  /\ candidates'
                                       = SubSeq(candidates, k + 1,
                                                Len(candidates))]_vars

\* Witness of C24: a Finalize found a two-target candidate live and within
\* budget, the inliner inlined neither call and the counter did not move,
\* and the Finalize stopped there with a candidate left in the backlog.
C24_Witness ==
  /\ lastOp.kind = "Finalize"
  /\ Len(lastOp.removed) = 1
  /\ lastOp.removed[1].num_functions = 2
  /\ lastOp.removed[1].disp = "changed"
  /\ ~lastOp.removed[1].dead
  /\ Len(lastOp.inl) = 2
  /\ ~SomeChanged(lastOp.inl, lastOp.removed[1].node)
  /\ cumulative_count = lastOp.before
  /\ candidates # <<>>

====
